---- MODULE Spec2Model ----
(***************************************************************************)
(* Model of the per-venue WebSocket connection pool of shl888/zea:         *)
(*   src/websocket_pool/exchange_pool.py  (ExchangeWebSocketPool)          *)
(*   src/websocket_pool/connection.py     (WebSocketConnection)            *)
(*   src/websocket_pool/admin.py          (WebSocketAdmin)                 *)
(*                                                                         *)
(* Symbols are the integers 1..N (the code treats them as opaque list      *)
(* entries); symbol 1 stands for the venue's heartbeat contract.           *)
(* Connection objects are the indexes of the sequence conns, so that two   *)
(* objects created with the same connection_id remain distinct.            *)
(***************************************************************************)
EXTENDS Integers, Sequences, FiniteSets, TLC

\* ---- bounds of the model ------------------------------------------------
\* partition specification: list lengths 0..MaxN, capacities 1..MaxP,
\* configured master counts 1..MaxM
MaxN == 6
MaxP == 4
MaxM == 4
\* the venue closes at most MaxCloses sockets in one run
MaxCloses == 2
\* one connection on its own: at most MaxStale orphaned delayed-subscribe tasks
MaxStale == 2

VARIABLES
    config,                    \* self.config: the venue's entry of EXCHANGE_CONFIGS
    symbols,                   \* self.symbols
    symbol_groups,             \* self.symbol_groups
    conns,                     \* the WebSocketConnection objects ever created for the lists
    master_connections,        \* self.master_connections (object ids)
    warm_standby_connections,  \* self.warm_standby_connections (object ids)
    monitor_connection,        \* self.monitor_connection (a connection record or NoConn)
    monitor_scheduler_task,    \* self.monitor_scheduler_task
    orphan_scheduler_tasks,    \* running loop tasks that self.monitor_scheduler_task no longer holds
    connection_status,         \* data_store.connection_status[exchange]
    closes,                    \* how many sockets the venue has closed so far
    brain_callback,            \* PipelineManager.brain_callback is set
    counters,                  \* PipelineManager.counters
    processing_lock,           \* PipelineManager.processing_lock: holder and waiters
    tasks,                     \* the tasks that call ingest_data, each at an await
    delivered,                 \* what brain_callback has been called with, in order
    ingested,                  \* the events ingest_data was called with, in order
    entered,                   \* the events that acquired processing_lock, in order
    market_data_lock,          \* DataStore.locks['market_data']: holder and waiters
    market_data,               \* DataStore.market_data: the entries stored, the latest marked
    last                       \* the operation that produced this state, with its inputs

\* the state of the pipeline manager and of its callers
pipe_vars == <<brain_callback, counters, processing_lock, tasks, delivered, ingested,
               entered, market_data_lock, market_data>>

\* the state of the pool
pool_vars == <<config, symbols, symbol_groups, conns, master_connections,
               warm_standby_connections, monitor_connection, monitor_scheduler_task,
               orphan_scheduler_tasks, connection_status, closes>>

vars == <<pool_vars, pipe_vars, last>>

\* ---- helpers ------------------------------------------------------------
Min(a, b) == IF a <= b THEN a ELSE b

Range(s) == {s[i] : i \in 1..Len(s)}

\* symbols[a:b] of Python, for 0 <= a
Slice(s, a, b) == SubSeq(s, a + 1, Min(b, Len(s)))

CeilDiv(n, p) == (n + p - 1) \div p

\* Op applied to the value of x, x being evaluated once
With(x, Op(_)) == CHOOSE r \in {Op(v) : v \in {x}} : TRUE

\* ---- symbol partitioning ------------------------------------------------
\* [symbols[i:i + P] for i in range(0, len(symbols), P)]
ChunkGroups(syms, P) ==
    [k \in 1..CeilDiv(Len(syms), P) |-> Slice(syms, (k - 1) * P, (k - 1) * P + P)]

\* the loop body of _balance_symbol_groups for i = i..target_groups-1
RECURSIVE BalanceLoop(_, _, _, _, _)
BalanceLoop(syms, target_groups, i, start, acc) ==
    IF i >= target_groups THEN acc
    ELSE LET avg_size == Len(syms) \div target_groups
             remainder == Len(syms) % target_groups
             size == avg_size + (IF i < remainder THEN 1 ELSE 0)
         IN IF start + size <= Len(syms)
            THEN BalanceLoop(syms, target_groups, i + 1, start + size,
                             Append(acc, Slice(syms, start, start + size)))
            ELSE BalanceLoop(syms, target_groups, i + 1, start, acc)

\* a rebalancing that forgets the remainder (for the mutation test)
BalanceSymbolGroupsNoRemainder(syms, target_groups) ==
    [k \in 1..target_groups |->
        Slice(syms, (k - 1) * (Len(syms) \div target_groups),
                    k * (Len(syms) \div target_groups))]

BalanceSymbolGroups(syms, target_groups) ==
    BalanceLoop(syms, target_groups, 0, 0, <<>>)

\* a partition that never rebalances (for the mutation test)
InitializeGroupsNoBalance(syms, P, M) ==
    ChunkGroups(syms, P)

\* the grouping part of initialize
InitializeGroups(syms, P, M) ==
    IF Len(ChunkGroups(syms, P)) > M
    THEN BalanceSymbolGroups(syms, M)
    ELSE ChunkGroups(syms, P)

\* ---- values shared by the specifications --------------------------------
NoLast == [op |-> "none"]

\* connection_status[exchange] with neither key written
EmptyStatus == [websocket_pool |-> <<>>, failover_history |-> <<>>]

\* ---- PipelineManager.__init__ ---------------------------------------------
\* number of tasks that call ingest_data
NTasks == 2

IdleTask == [pc |-> "idle", id |-> 0, pending |-> <<>>]

\* PipelineManager(brain_callback) right after construction
PipelineInit(callback_given) ==
    /\ brain_callback = callback_given
    /\ counters = [market_processed |-> 0, account_processed |-> 0, errors |-> 0]
    /\ processing_lock = [holder |-> 0, waiters |-> <<>>]
    /\ tasks = [t \in 1..NTasks |-> IdleTask]
    /\ delivered = <<>>
    /\ ingested = <<>>
    /\ entered = <<>>
    /\ market_data_lock = [holder |-> 0, waiters |-> <<>>]
    /\ market_data = {}

\* ---- WebSocketConnection --------------------------------------------------
MASTER == "master"
WARM_STANDBY == "warm_standby"
MONITOR == "monitor"

\* _get_heartbeat_symbols / the default heartbeat of switch_role (binance)
get_heartbeat_symbols == <<1>>

\* WebSocketConnection.__init__.  delayed: the task held in
\* self.delayed_subscribe_task is still sleeping; stale: the number of sleeping
\* _delayed_subscribe tasks whose handle a later connect has overwritten;
\* subscribing: the task held is at the await of _subscribe
NewConnection(connection_type, syms) ==
    [exists |-> TRUE, connection_type |-> connection_type, symbols |-> syms,
     connected |-> FALSE, subscribed |-> FALSE, is_active |-> FALSE,
     delayed |-> FALSE, stale |-> 0, subscribing |-> FALSE]

\* the frames _subscribe sends for the connection's slice
subscribe_frames(c) ==
    IF c.symbols = <<>> THEN <<>> ELSE <<[kind |-> "SUBSCRIBE", syms |-> c.symbols]>>

\* the frames _unsubscribe sends for the connection's slice
unsubscribe_frames(c) ==
    IF c.symbols = <<>> THEN <<>> ELSE <<[kind |-> "UNSUBSCRIBE", syms |-> c.symbols]>>

\* connect(); ok is whether websockets.connect returned a socket in time.
\* The warm-standby branch assigns a new task to self.delayed_subscribe_task
\* without cancelling the one it held.
connect(c, ok) ==
    IF ~ok
    THEN [conn |-> [c EXCEPT !.connected = FALSE], ok |-> FALSE, frames |-> <<>>]
    ELSE IF c.connection_type = MASTER /\ c.symbols # <<>>
    THEN [conn |-> [c EXCEPT !.connected = TRUE, !.subscribed = TRUE, !.is_active = TRUE],
          ok |-> TRUE, frames |-> subscribe_frames(c)]
    ELSE IF c.connection_type = WARM_STANDBY /\ c.symbols # <<>>
    THEN [conn |-> [c EXCEPT !.connected = TRUE, !.delayed = TRUE,
                             !.stale = IF c.delayed THEN @ + 1 ELSE @],
          ok |-> TRUE, frames |-> <<>>]
    ELSE [conn |-> [c EXCEPT !.connected = TRUE], ok |-> TRUE, frames |-> <<>>]

\* _delayed_subscribe once its sleep is over
delayed_subscribe(c) ==
    IF c.connected /\ ~c.subscribed /\ c.symbols # <<>>
    THEN [conn |-> [c EXCEPT !.subscribed = TRUE, !.delayed = FALSE],
          frames |-> subscribe_frames(c)]
    ELSE [conn |-> [c EXCEPT !.delayed = FALSE], frames |-> <<>>]

\* _delayed_subscribe once its sleep is over, up to its await of _subscribe
delayed_subscribe_sends(c) ==
    IF c.connected /\ ~c.subscribed /\ c.symbols # <<>>
    THEN [conn |-> [c EXCEPT !.delayed = FALSE, !.subscribing = TRUE],
          frames |-> subscribe_frames(c)]
    ELSE [conn |-> [c EXCEPT !.delayed = FALSE], frames |-> <<>>]

\* _delayed_subscribe when _subscribe returns, which it does also when a send
\* raised: the except clause of _subscribe_binance / _subscribe_okx logs it
delayed_subscribe_resumes(c) ==
    [c EXCEPT !.subscribed = TRUE, !.subscribing = FALSE]

\* _delayed_subscribe of a task that is no longer self.delayed_subscribe_task,
\* once its sleep is over
stale_delayed_subscribe(c) ==
    IF c.connected /\ ~c.subscribed /\ c.symbols # <<>>
    THEN [conn |-> [c EXCEPT !.subscribed = TRUE, !.stale = @ - 1],
          frames |-> subscribe_frames(c)]
    ELSE [conn |-> [c EXCEPT !.stale = @ - 1], frames |-> <<>>]

\* self.monitor_connection = None
NoConn == [NewConnection(MONITOR, <<>>) EXCEPT !.exists = FALSE]

\* a receive task that also demotes the connection when its socket closes
\* (for the mutation test)
receive_closed_demoting(c) ==
    [c EXCEPT !.connected = FALSE, !.subscribed = FALSE, !.is_active = FALSE,
              !.connection_type = WARM_STANDBY]

\* _receive_messages when the socket closes
receive_closed(c) ==
    [c EXCEPT !.connected = FALSE, !.subscribed = FALSE, !.is_active = FALSE]

\* _receive_messages when the socket closes with code 1000 or 1001: the
\* `async for` over the socket ends without an exception, and no statement
\* follows the loop
receive_ended(c) == c

\* disconnect()
disconnect(c) ==
    [c EXCEPT !.delayed = FALSE, !.subscribing = FALSE, !.connected = FALSE,
              !.subscribed = FALSE, !.is_active = FALSE]

\* switch_role with every pair of roles taking the promotion or demotion
\* branch when the new role asks for it (for the mutation test)
switch_role_any_old_role(c, new_role, new_symbols, fault) ==
    LET unsub == c.connected /\ c.subscribed
        c1 == [c EXCEPT !.subscribed = IF unsub THEN FALSE ELSE @,
                        !.symbols = IF new_symbols # <<>> THEN new_symbols ELSE @,
                        !.is_active = (new_role = MASTER),
                        !.connection_type = new_role]
        sub == c1.connected /\ c1.symbols # <<>>
    IN [conn |-> [c1 EXCEPT !.subscribed = IF sub THEN TRUE ELSE @],
        ok |-> TRUE,
        frames |-> (IF unsub THEN unsubscribe_frames(c) ELSE <<>>)
                   \o (IF sub THEN subscribe_frames(c1) ELSE <<>>)]

\* switch_role(new_role, new_symbols).  fault names the await at which an
\* exception escapes into the handler of lines 231-233 ("none": no exception)
switch_role(c, new_role, new_symbols, fault) ==
    IF new_role = MASTER /\ c.connection_type = WARM_STANDBY
    THEN LET c0 == [c EXCEPT !.delayed = FALSE, !.subscribing = FALSE]
             unsub == c0.connected /\ c0.subscribed
         IN IF unsub /\ fault = "unsubscribe"
            THEN [conn |-> c0, ok |-> FALSE, frames |-> <<>>]
            ELSE LET c1 == [c0 EXCEPT !.subscribed = IF unsub THEN FALSE ELSE @,
                                      !.symbols = IF new_symbols # <<>> THEN new_symbols ELSE @,
                                      !.is_active = TRUE,
                                      !.connection_type = new_role]
                     fr1 == IF unsub THEN unsubscribe_frames(c0) ELSE <<>>
                     sub == c1.connected /\ c1.symbols # <<>>
                 IN IF sub /\ fault = "subscribe"
                    THEN [conn |-> c1, ok |-> FALSE, frames |-> fr1]
                    ELSE [conn |-> [c1 EXCEPT !.subscribed = IF sub THEN TRUE ELSE @],
                          ok |-> TRUE,
                          frames |-> fr1 \o (IF sub THEN subscribe_frames(c1) ELSE <<>>)]
    ELSE IF new_role = WARM_STANDBY /\ c.connection_type = MASTER
    THEN LET unsub == c.connected /\ c.subscribed
         IN IF unsub /\ fault = "unsubscribe"
            THEN [conn |-> c, ok |-> FALSE, frames |-> <<>>]
            ELSE LET c1 == [c EXCEPT !.subscribed = IF unsub THEN FALSE ELSE @,
                                     !.symbols = IF new_symbols # <<>> THEN new_symbols
                                                 ELSE get_heartbeat_symbols,
                                     !.is_active = FALSE,
                                     !.connection_type = new_role]
                     fr1 == IF unsub THEN unsubscribe_frames(c) ELSE <<>>
                     sub == c1.connected /\ c1.symbols # <<>>
                 IN IF sub /\ fault = "subscribe"
                    THEN [conn |-> c1, ok |-> FALSE, frames |-> fr1]
                    ELSE [conn |-> [c1 EXCEPT !.subscribed = IF sub THEN TRUE ELSE @],
                          ok |-> TRUE,
                          frames |-> fr1 \o (IF sub THEN subscribe_frames(c1) ELSE <<>>)]
    ELSE [conn |-> [c EXCEPT !.connection_type = new_role], ok |-> TRUE, frames |-> <<>>]

\* ---- ExchangeWebSocketPool ------------------------------------------------
\* pool configuration of the pool specifications (symbols_per_master,
\* masters_count, warm_standbys_count scaled down) and the longest symbol list
PoolPerMaster == 1
PoolMasters == 2
PoolStandbys == 2
PoolSymbols == 3

\* max_retries of _initialize_monitor_scheduler
max_retries == 3

\* the pool object as a record; log collects what the running operation did
Pool ==
    [symbols |-> symbols, symbol_groups |-> symbol_groups, conns |-> conns,
     master_connections |-> master_connections,
     warm_standby_connections |-> warm_standby_connections,
     monitor_connection |-> monitor_connection,
     monitor_scheduler_task |-> monitor_scheduler_task,
     orphan_scheduler_tasks |-> orphan_scheduler_tasks,
     connection_status |-> connection_status,
     log |-> <<>>]

SetPool(p) ==
    /\ symbols' = p.symbols
    /\ symbol_groups' = p.symbol_groups
    /\ conns' = p.conns
    /\ master_connections' = p.master_connections
    /\ warm_standby_connections' = p.warm_standby_connections
    /\ monitor_connection' = p.monitor_connection
    /\ monitor_scheduler_task' = p.monitor_scheduler_task
    /\ orphan_scheduler_tasks' = p.orphan_scheduler_tasks
    /\ connection_status' = p.connection_status

\* log entries: a connect call on object id, and the frames an operation sent on it
LogConnect(p, id, ok) == [p EXCEPT !.log = Append(@, [c |-> id, ev |-> "connect", ok |-> ok])]

LogFrames(p, id, frames) ==
    [p EXCEPT !.log = @ \o [k \in 1..Len(frames) |->
                               [c |-> id, ev |-> frames[k].kind, ok |-> TRUE]]]

\* connect() called on an object the pool already holds
PoolConnect(p0, id, ok) ==
    With(p0, LAMBDA p :
        LET r == connect(p.conns[id], ok)
        IN LogFrames(LogConnect([p EXCEPT !.conns[id] = r.conn], id, ok), id, r.frames))

\* the loop of _initialize_masters from group i on; mo[i] is the outcome of
\* the connect of group i's connection (false: failure, timeout or exception)
RECURSIVE initialize_masters(_, _, _)
initialize_masters(p0, mo, i) ==
    With(p0, LAMBDA p :
        IF i > Len(p.symbol_groups) THEN p
        ELSE LET r == connect(NewConnection(MASTER, p.symbol_groups[i]), mo[i])
                 id == Len(p.conns) + 1
             IN IF r.ok
                THEN initialize_masters(
                         LogFrames(LogConnect(
                             [p EXCEPT !.conns = Append(@, r.conn),
                                       !.master_connections = Append(@, id)],
                             id, TRUE), id, r.frames),
                         mo, i + 1)
                ELSE initialize_masters(p, mo, i + 1))

\* the loop of _initialize_warm_standbys from standby i on
RECURSIVE initialize_warm_standbys(_, _, _, _)
initialize_warm_standbys(p0, warm_standbys_count, wo, i) ==
    With(p0, LAMBDA p :
        IF i > warm_standbys_count THEN p
        ELSE LET r == connect(NewConnection(WARM_STANDBY, get_heartbeat_symbols), wo[i])
                 id == Len(p.conns) + 1
             IN IF r.ok
                THEN initialize_warm_standbys(
                         LogConnect([p EXCEPT !.conns = Append(@, r.conn),
                                              !.warm_standby_connections = Append(@, id)],
                                    id, TRUE),
                         warm_standbys_count, wo, i + 1)
                ELSE initialize_warm_standbys(p, warm_standbys_count, wo, i + 1))

\* _initialize_monitor_scheduler; attempt is the attempt (1..max_retries) whose
\* connect succeeds, 0 when none does.  The new loop task is assigned to
\* self.monitor_scheduler_task without cancelling the one it held.
initialize_monitor_scheduler(p, monitor_enabled, attempt) ==
    IF ~monitor_enabled THEN p
    ELSE IF attempt \in 1..max_retries
    THEN [p EXCEPT !.monitor_connection = connect(NewConnection(MONITOR, <<>>), TRUE).conn,
                   !.orphan_scheduler_tasks =
                       IF p.monitor_scheduler_task = "running" THEN @ + 1 ELSE @,
                   !.monitor_scheduler_task = "running"]
    ELSE [p EXCEPT !.monitor_connection = connect(NewConnection(MONITOR, <<>>), FALSE).conn]

\* a post-check that starts the loop only beside a connected monitor
\* connection (for the mutation test)
enforce_monitor_scheduler_if_connected(p0, monitor_enabled, attempt) ==
    With(p0, LAMBDA p :
        With(IF ~p.monitor_connection.exists \/ ~p.monitor_connection.connected
             THEN initialize_monitor_scheduler(p, monitor_enabled, attempt)
             ELSE p,
             LAMBDA p1 :
                IF p1.monitor_scheduler_task \in {"none", "done"}
                   /\ p1.monitor_connection.connected
                THEN [p1 EXCEPT !.monitor_scheduler_task = "running"]
                ELSE p1))

\* _enforce_monitor_scheduler, and the body of the loop of
\* WebSocketAdmin._enforce_all_monitor_schedulers, which repeats it
enforce_monitor_scheduler(p0, monitor_enabled, attempt) ==
    With(p0, LAMBDA p :
        With(IF ~p.monitor_connection.exists \/ ~p.monitor_connection.connected
             THEN initialize_monitor_scheduler(p, monitor_enabled, attempt)
             ELSE p,
             LAMBDA p1 :
                IF p1.monitor_scheduler_task \in {"none", "done"}
                THEN [p1 EXCEPT !.monitor_scheduler_task = "running"]
                ELSE p1))

\* initialize(symbols) for the list 1..n
initialize(p, cfg, n, mo, wo, attempt1, attempt2) ==
    LET p0 == [p EXCEPT !.symbols = [i \in 1..n |-> i],
                        !.symbol_groups = InitializeGroups([i \in 1..n |-> i],
                                              cfg.symbols_per_master, cfg.masters_count)]
        p1 == initialize_masters(p0, mo, 1)
        p2 == initialize_warm_standbys(p1, cfg.warm_standbys_count, wo, 1)
        p3 == initialize_monitor_scheduler(p2, cfg.monitor_enabled, attempt1)
    IN enforce_monitor_scheduler(p3, cfg.monitor_enabled, attempt2)

\* shutdown()
shutdown(p0) ==
    With(p0, LAMBDA p :
        LET listed == Range(p.master_connections) \cup Range(p.warm_standby_connections)
        IN [p EXCEPT !.monitor_scheduler_task = IF @ = "none" THEN "none" ELSE "done",
                     !.conns = [id \in 1..Len(p.conns) |->
                                   IF id \in listed THEN disconnect(p.conns[id])
                                   ELSE p.conns[id]],
                     !.monitor_connection = IF @.exists THEN disconnect(@) ELSE @])

\* the standbys a failover may promote: connected and not active
available_standbys(p) ==
    {id \in Range(p.warm_standby_connections) :
        p.conns[id].connected /\ ~p.conns[id].is_active}

\* _select_best_standby_from_pool.  With no available standby it returns None
\* (standby 0).  Otherwise min() evaluates its key on every candidate, and the
\* key reads conn.last_message_seconds_ago, an attribute WebSocketConnection
\* never defines (only check_health's dictionary has that key): AttributeError.
select_best_standby_from_pool(p) ==
    IF available_standbys(p) = {}
    THEN [raised |-> FALSE, standby |-> 0]
    ELSE [raised |-> TRUE, standby |-> 0]

\* _report_status_to_data_store: the snapshot written under "websocket_pool"
report_status_to_data_store(p0) ==
    With(p0, LAMBDA p : [p EXCEPT !.connection_status.websocket_pool =
        <<[masters |-> Len(p.master_connections),
           warm_standbys |-> Len(p.warm_standby_connections),
           monitor |-> p.monitor_connection.exists]>>])

\* _report_failover_to_data_store: update_connection_status assigns the record
\* to the key "failover_history"
report_failover_to_data_store(p, master_index, old_master, new_master) ==
    [p EXCEPT !.connection_status.failover_history =
        <<[master_index |-> master_index, old_master |-> old_master,
           new_master |-> new_master]>>]

\* a remove that leaves the list as it is (for the mutation test)
RemoveNothing(seq, x) == seq

\* list.remove(x) on a list that holds x at most once
Remove(seq, x) == SelectSeq(seq, LAMBDA y : y # x)

\* _monitor_execute_failover(master_index, old_master, new_master).  i is the
\* position in master_connections (master_index + 1); rc[id] is the outcome of
\* a connect of object id during this operation; fault is passed to the
\* promoted standby's switch_role.
monitor_execute_failover(p0, i, new_master, rc, fault) ==
  With(p0, LAMBDA p :
    LET old_master == p.master_connections[i]
        o == p.conns[old_master]
        \* 1. unsubscribe the old master if it is still open, clear its slice
        p1 == [(IF o.connected /\ o.subscribed
                THEN LogFrames(p, old_master, unsubscribe_frames(o)) ELSE p)
               EXCEPT !.conns[old_master].symbols = <<>>]
        \* 2. promote the standby
        master_symbols == IF i <= Len(p.symbol_groups) THEN p.symbol_groups[i] ELSE <<>>
        sw == switch_role(p1.conns[new_master], MASTER, master_symbols, fault)
        p2 == LogFrames([p1 EXCEPT !.conns[new_master] = sw.conn], new_master, sw.frames)
        \* 3. update the lists
        p3 == [p2 EXCEPT !.warm_standby_connections = Remove(@, new_master),
                         !.master_connections[i] = new_master]
        \* 4. the old master reconnects as a warm standby
        p4 == PoolConnect([p3 EXCEPT !.conns[old_master] = disconnect(@)],
                          old_master, rc[old_master])
        dm == switch_role(p4.conns[old_master], WARM_STANDBY, get_heartbeat_symbols, "none")
        p5 == IF rc[old_master]
              THEN LET q == LogFrames([p4 EXCEPT !.conns[old_master] = dm.conn],
                                      old_master, dm.frames)
                   IN IF old_master \in Range(q.warm_standby_connections) THEN q
                      ELSE [q EXCEPT !.warm_standby_connections = Append(@, old_master)]
              ELSE p4
    IN IF ~sw.ok
       THEN [pool |-> p2, success |-> FALSE]
       ELSE [pool |-> report_failover_to_data_store(p5, i - 1, old_master, new_master),
             success |-> TRUE])

\* a handler that clears the failed master's slice before it reconnects it
\* (for the mutation test)
monitor_handle_master_failure_clearing(p, i, standby_conn, rc, fault) ==
    LET failed_master == p.master_connections[i]
    IN [pool |-> PoolConnect([p EXCEPT !.conns[failed_master].symbols = <<>>],
                             failed_master, rc[failed_master]),
        path |-> "reconnect"]

\* _monitor_handle_master_failure(master_index, failed_master) from line 310
\* on, standby_conn being what _select_best_standby_from_pool returned
\* (0 for None)
monitor_handle_master_failure(p0, i, standby_conn, rc, fault) ==
  With(p0, LAMBDA p :
    LET failed_master == p.master_connections[i]
    IN IF standby_conn = 0
       THEN [pool |-> PoolConnect(p, failed_master, rc[failed_master]),
             path |-> "reconnect"]
       ELSE With(monitor_execute_failover(p, i, standby_conn, rc, fault), LAMBDA r :
               IF r.success
               THEN [pool |-> r.pool, path |-> "failover"]
               ELSE [pool |-> PoolConnect(r.pool, failed_master, rc[failed_master]),
                     path |-> "aborted"]))

\* part 1 of an iteration of _monitor_scheduling_loop, from master position i
\* on.  An exception leaves the loop body for the handler of line 300.
RECURSIVE monitor_masters(_, _, _)
monitor_masters(p0, rc, i) ==
    With(p0, LAMBDA p :
        IF i > Len(p.master_connections) THEN [pool |-> p, raised |-> FALSE]
        ELSE IF p.conns[p.master_connections[i]].connected
        THEN monitor_masters(p, rc, i + 1)
        ELSE LET sel == select_best_standby_from_pool(p)
             IN IF sel.raised
                THEN [pool |-> p, raised |-> TRUE]
                ELSE monitor_masters(
                         monitor_handle_master_failure(p, i, sel.standby, rc, "none").pool,
                         rc, i + 1))

\* part 2 of an iteration: every disconnected standby is reconnected
RECURSIVE monitor_standbys(_, _, _)
monitor_standbys(p0, rc, j) ==
    With(p0, LAMBDA p :
        IF j > Len(p.warm_standby_connections) THEN p
        ELSE LET id == p.warm_standby_connections[j]
             IN IF p.conns[id].connected
                THEN monitor_standbys(p, rc, j + 1)
                ELSE monitor_standbys(PoolConnect(p, id, rc[id]), rc, j + 1))

\* one iteration of _monitor_scheduling_loop
monitor_scheduling_loop(p, rc) ==
    With(monitor_masters(p, rc, 1), LAMBDA m :
        IF m.raised
        THEN [pool |-> m.pool, raised |-> TRUE]
        ELSE [pool |-> report_status_to_data_store(monitor_standbys(m.pool, rc, 1)),
              raised |-> FALSE])

\* ---- the pool as the program wires it -------------------------------------
PoolConfig ==
    [symbols_per_master : {PoolPerMaster}, masters_count : {PoolMasters},
     warm_standbys_count : {PoolStandbys}, monitor_enabled : BOOLEAN]

Init ==
    /\ config \in PoolConfig
    /\ symbols = <<>>
    /\ symbol_groups = <<>>
    /\ conns = <<>>
    /\ master_connections = <<>>
    /\ warm_standby_connections = <<>>
    /\ monitor_connection = NoConn
    /\ monitor_scheduler_task = "none"
    /\ orphan_scheduler_tasks = 0
    /\ connection_status = EmptyStatus
    /\ closes = 0
    /\ PipelineInit(TRUE)
    /\ last = NoLast

\* the inputs of one initialize: the list length, the outcome of every
\* master and standby connect, and the successful monitor attempt of
\* _initialize_monitor_scheduler and of the post-check (0: none)
InitializeWith(op, p, lengths, attempts) ==
    \E n \in lengths :
      \E mo \in [1..Len(InitializeGroups([i \in 1..n |-> i], config.symbols_per_master,
                                         config.masters_count)) -> BOOLEAN],
         wo \in [1..config.warm_standbys_count -> BOOLEAN],
         attempt1 \in attempts, attempt2 \in attempts :
        \E q \in {initialize(p, config, n, mo, wo, attempt1, attempt2)} :
           /\ SetPool(q)
           /\ last' = [op |-> op, n |-> n, mo |-> mo, wo |-> wo,
                       same |-> (last.op = "initialize" /\ n = last.n
                                 /\ mo = last.mo /\ wo = last.wo)]

\* ExchangeWebSocketPool.initialize(symbols) on a new pool
Initialize ==
    /\ last.op = "none"
    /\ InitializeWith("initialize", Pool, 0..PoolSymbols, {0, 1})
    /\ UNCHANGED <<pipe_vars, config, closes>>

\* WebSocketAdmin.start returning true: the pool manager's initialize (each
\* pool's initialize, or nothing where the manager gave up on the pool), then
\* _enforce_all_monitor_schedulers
PoolManagerInitialize(p, ran, n, mo, wo, attempt1, attempt2) ==
    IF ran THEN initialize(p, config, n, mo, wo, attempt1, attempt2) ELSE p

AdminStart ==
    /\ last.op = "none"
    /\ \E ran \in BOOLEAN, n \in 0..PoolSymbols, attempt3 \in {0, 1} :
         \E mo \in [1..Len(InitializeGroups([i \in 1..n |-> i], config.symbols_per_master,
                                            config.masters_count)) -> BOOLEAN],
            wo \in [1..config.warm_standbys_count -> BOOLEAN],
            attempt1 \in {0, 1}, attempt2 \in {0, max_retries} :
           \E q \in {enforce_monitor_scheduler(
                        PoolManagerInitialize(Pool, ran, n, mo, wo, attempt1, attempt2),
                        config.monitor_enabled, attempt3)} :
              /\ SetPool(q)
              /\ last' = [op |-> "admin_start", ran |-> ran]
    /\ UNCHANGED <<pipe_vars, config, closes>>

Started == last.op # "none"

\* the socket of a listed connection closes: its receive task ends
SocketClose ==
    /\ Started
    /\ closes < MaxCloses
    /\ closes' = closes + 1
    /\ \E id \in 1..Len(conns) :
         /\ conns[id].connected
         /\ conns' = [conns EXCEPT ![id] = receive_closed(@)]
         /\ last' = [op |-> "socket_close", c |-> id]
    /\ UNCHANGED <<pipe_vars, config, symbols, symbol_groups, master_connections,
                   warm_standby_connections, monitor_connection,
                   monitor_scheduler_task,
                   orphan_scheduler_tasks, connection_status>>

\* the socket of the monitor connection closes
MonitorSocketClose ==
    /\ Started
    /\ closes < MaxCloses
    /\ closes' = closes + 1
    /\ monitor_connection.connected
    /\ monitor_connection' = receive_closed(monitor_connection)
    /\ last' = [op |-> "monitor_socket_close"]
    /\ UNCHANGED <<pipe_vars, config, symbols, symbol_groups, conns, master_connections,
                   warm_standby_connections, monitor_scheduler_task,
                   orphan_scheduler_tasks, connection_status>>

\* an orphaned _delayed_subscribe task of a connection wakes up
StaleDelayedSubscribe ==
    /\ \E id \in 1..Len(conns) :
         /\ conns[id].stale > 0
         /\ LET r == stale_delayed_subscribe(conns[id])
            IN /\ conns' = [conns EXCEPT ![id] = r.conn]
               /\ last' = [op |-> "stale_delayed_subscribe", c |-> id,
                           log |-> LogFrames(Pool, id, r.frames).log]
    /\ UNCHANGED <<pipe_vars, config, closes, symbols, symbol_groups, master_connections,
                   warm_standby_connections, monitor_connection,
                   monitor_scheduler_task,
                   orphan_scheduler_tasks, connection_status>>

\* the _delayed_subscribe task held in delayed_subscribe_task wakes up; the
\* tasks of one connection sleep equally long, so the earlier ones woke before
DelayedSubscribe ==
    /\ \E id \in 1..Len(conns) :
         /\ conns[id].delayed
         /\ conns[id].stale = 0
         /\ LET r == delayed_subscribe(conns[id])
            IN /\ conns' = [conns EXCEPT ![id] = r.conn]
               /\ last' = [op |-> "delayed_subscribe", c |-> id,
                           log |-> LogFrames(Pool, id, r.frames).log]
    /\ UNCHANGED <<pipe_vars, config, closes, symbols, symbol_groups, master_connections,
                   warm_standby_connections, monitor_connection,
                   monitor_scheduler_task,
                   orphan_scheduler_tasks, connection_status>>

\* the connect outcomes an operation may meet, one per object
ConnectOutcomes == [1..Len(conns) -> BOOLEAN]

FailedMasters(p) ==
    {i \in 1..Len(p.master_connections) : ~p.conns[p.master_connections[i]].connected}

\* one iteration of the monitor-scheduling loop, run by the loop task
MonitorTick ==
    /\ monitor_scheduler_task = "running"
    /\ \E rc \in ConnectOutcomes :
         \E r \in {monitor_scheduling_loop(Pool, rc)} :
            /\ SetPool(r.pool)
            /\ last' = [op |-> "monitor_tick", raised |-> r.raised,
                        failed |-> FailedMasters(Pool),
                        available |-> available_standbys(Pool),
                        log |-> r.pool.log]
    /\ UNCHANGED <<pipe_vars, config, closes>>

\* ExchangeWebSocketPool.shutdown
Shutdown ==
    /\ Started
    /\ last.op # "shutdown"
    /\ \E q \in {shutdown(Pool)} : SetPool(q)
    /\ last' = [op |-> "shutdown"]
    /\ UNCHANGED <<pipe_vars, config, closes>>

Next ==
    \/ Initialize
    \/ SocketClose
    \/ MonitorSocketClose
    \/ DelayedSubscribe
    \/ StaleDelayedSubscribe
    \/ MonitorTick
    \/ Shutdown

Spec == Init /\ [][Next]_vars

\* ---- the failover routine, reached with a selected standby -----------------
\* Step 1 of the failover algorithm as specified: the standbys that may be
\* selected are those connected and not active (the minimum of the tuple is
\* any of them, message times being free); 0 when there is none.
selectable_standbys(p) ==
    IF available_standbys(p) = {} THEN {0} ELSE available_standbys(p)

\* the await of switch_role at which an injected exception escapes
Faults == {"none", "unsubscribe", "subscribe"}

\* the monitor loop finds master position i disconnected and handles it
HandleMasterFailure ==
    /\ monitor_scheduler_task = "running"
    /\ \E i \in FailedMasters(Pool), ok \in BOOLEAN, fault \in Faults :
         \E standby_conn \in selectable_standbys(Pool) :
           \E r \in {monitor_handle_master_failure(Pool, i, standby_conn,
                                                   [id \in 1..Len(conns) |-> ok], fault)} :
              /\ SetPool(r.pool)
              /\ last' = [op |-> "handle_master_failure", i |-> i,
                          standby |-> standby_conn, path |-> r.path]
    /\ UNCHANGED <<pipe_vars, config, closes>>

\* the connect outcomes of the loop's second part: one per disconnected
\* standby, the only connections it calls connect on
StandbyOutcomes ==
    {rc \in ConnectOutcomes :
        \A id \in 1..Len(conns) :
           (id \notin Range(warm_standby_connections) \/ conns[id].connected) => rc[id]}

\* the loop's second part: disconnected standbys are reconnected, the status
\* snapshot is written
ReconnectStandbys ==
    /\ monitor_scheduler_task = "running"
    /\ \E j \in 1..Len(warm_standby_connections) :
          ~conns[warm_standby_connections[j]].connected
    /\ \E rc \in StandbyOutcomes :
         \E q \in {report_status_to_data_store(monitor_standbys(Pool, rc, 1))} :
            /\ SetPool(q)
            /\ last' = [op |-> "reconnect_standbys"]
    /\ UNCHANGED <<pipe_vars, config, closes>>

\* initialize of the longest symbol list, the monitor connecting at once
InitializeForFailover ==
    /\ last.op = "none"
    /\ InitializeWith("initialize", Pool, {PoolSymbols}, {1})
    /\ UNCHANGED <<pipe_vars, config, closes>>

NextFailover ==
    \/ InitializeForFailover
    \/ SocketClose
    \/ DelayedSubscribe
    \/ StaleDelayedSubscribe
    \/ HandleMasterFailure
    \/ ReconnectStandbys

SpecFailover == Init /\ [][NextFailover]_vars

\* ---- the monitor loop scheduled fairly ----------------------------------------
\* an iteration of _monitor_scheduling_loop in which the venue accepts every
\* connection
MonitorTickAccepted ==
    /\ monitor_scheduler_task = "running"
    /\ \E r \in {monitor_scheduling_loop(Pool, [id \in 1..Len(conns) |-> TRUE])} :
         /\ SetPool(r.pool)
         /\ last' = [op |-> "monitor_tick", raised |-> r.raised,
                     failed |-> FailedMasters(Pool),
                     available |-> available_standbys(Pool),
                     log |-> r.pool.log]
    /\ UNCHANGED <<pipe_vars, config, closes>>

NextLive ==
    \/ Initialize
    \/ SocketClose
    \/ DelayedSubscribe
    \/ StaleDelayedSubscribe
    \/ MonitorTickAccepted
    \/ MonitorTick

\* the loop runs every 3 seconds for as long as its task lives, and the venue
\* accepts connections again and again
SpecLive == Init /\ [][NextLive]_vars /\ WF_vars(MonitorTickAccepted)

\* symbol group i is carried by a connected, subscribed connection of the
\* master list
GroupServed(i) ==
    \E id \in Range(master_connections) :
       /\ conns[id].connected
       /\ conns[id].subscribed
       /\ conns[id].symbols = symbol_groups[i]

\* every connection initialize set out to create is in its list and connected
AllCreatedConnected ==
    /\ \A i \in 1..Len(symbol_groups) : GroupServed(i)
    /\ Len(warm_standby_connections) = config.warm_standbys_count
    /\ \A id \in Range(warm_standby_connections) : conns[id].connected

\* C21: a master or warm standby whose connect failed during initialize is
\* retried by the monitor loop: while no socket closes, a pool whose loop runs
\* comes to hold every standby connected and to serve every symbol group.
C21_FailedInitialConnectsAreRetried ==
    (Started /\ monitor_scheduler_task = "running")
    ~> (closes > 0 \/ AllCreatedConnected)

\* master position i holds a disconnected connection while the loop runs
PositionDown(i) ==
    /\ monitor_scheduler_task = "running"
    /\ i <= Len(master_connections)
    /\ ~conns[master_connections[i]].connected

PositionServed(i) ==
    /\ i <= Len(master_connections)
    /\ conns[master_connections[i]].connected
    /\ conns[master_connections[i]].subscribed
    /\ conns[master_connections[i]].symbols = symbol_groups[i]

\* C22: every master position found disconnected eventually holds a connected,
\* subscribed connection that carries the position's symbol group, whether or
\* not a standby is available.
C22_DisconnectedMasterIsRecovered ==
    \A i \in 1..PoolMasters : PositionDown(i) ~> PositionServed(i)

\* ---- start, shutdown and restart of a pool -----------------------------------
\* WebSocketAdmin.reconnect_exchange on a running pool: shutdown, a sleep in
\* which the cancelled tasks end, then initialize with the pool's own symbol list
ReconnectExchange ==
    /\ Started
    /\ monitor_scheduler_task = "running"
    /\ \A id \in Range(master_connections) \cup Range(warm_standby_connections) :
          conns[id].connected
    /\ InitializeWith("reconnect_exchange", shutdown(Pool), {Len(symbols)}, {0, 1})
    /\ UNCHANGED <<pipe_vars, config, closes>>

NextLifecycle ==
    \/ Initialize
    \/ AdminStart
    \/ MonitorSocketClose
    \/ Shutdown
    \/ ReconnectExchange

SpecLifecycle == Init /\ [][NextLifecycle]_vars

\* ---- one connection, its operations called in any order ----------------------
RoleSlices == {<<>>, <<1>>, <<2, 3>>}

InitRole ==
    /\ config \in {c \in PoolConfig : c.monitor_enabled}
    /\ symbols = <<>>
    /\ symbol_groups = <<>>
    /\ conns \in {<<NewConnection(t, sl)>> : t \in {MASTER, WARM_STANDBY, MONITOR},
                                            sl \in RoleSlices}
    /\ master_connections = <<>>
    /\ warm_standby_connections = <<>>
    /\ monitor_connection = NoConn
    /\ monitor_scheduler_task = "none"
    /\ orphan_scheduler_tasks = 0
    /\ connection_status = EmptyStatus
    /\ closes = 0
    /\ PipelineInit(TRUE)
    /\ last = NoLast

RoleFrame ==
    UNCHANGED <<pipe_vars, config, symbols, symbol_groups, master_connections,
                warm_standby_connections, monitor_connection,
                monitor_scheduler_task,
                   orphan_scheduler_tasks, connection_status, closes>>

RoleConnect ==
    /\ conns[1].stale < MaxStale
    /\ \E ok \in BOOLEAN :
         \E r \in {connect(conns[1], ok)} :
            /\ conns' = <<r.conn>>
            /\ last' = [op |-> "connect", ok |-> ok, frames |-> r.frames]
    /\ RoleFrame

RoleSocketClose ==
    /\ conns[1].connected
    /\ conns' = <<receive_closed(conns[1])>>
    /\ last' = [op |-> "socket_close"]
    /\ RoleFrame

RoleSocketEnd ==
    /\ conns[1].connected
    /\ conns' = <<receive_ended(conns[1])>>
    /\ last' = [op |-> "socket_end"]
    /\ RoleFrame

RoleDelayedSubscribe ==
    /\ conns[1].delayed
    /\ conns[1].stale = 0
    /\ \E r \in {delayed_subscribe(conns[1])} :
         /\ conns' = <<r.conn>>
         /\ last' = [op |-> "delayed_subscribe", frames |-> r.frames]
    /\ RoleFrame

RoleStaleDelayedSubscribe ==
    /\ conns[1].stale > 0
    /\ \E r \in {stale_delayed_subscribe(conns[1])} :
         /\ conns' = <<r.conn>>
         /\ last' = [op |-> "stale_delayed_subscribe", frames |-> r.frames]
    /\ RoleFrame

RoleDisconnect ==
    /\ conns' = <<disconnect(conns[1])>>
    /\ last' = [op |-> "disconnect"]
    /\ RoleFrame

RoleSwitch ==
    /\ \E new_role \in {MASTER, WARM_STANDBY}, new_symbols \in RoleSlices :
         \E r \in {switch_role(conns[1], new_role, new_symbols, "none")} :
            /\ conns' = <<r.conn>>
            /\ last' = [op |-> "switch_role", role |-> new_role, syms |-> new_symbols,
                        ok |-> r.ok, frames |-> r.frames,
                        repeat |-> (last.op = "switch_role" /\ last.role = new_role
                                    /\ last.syms = new_symbols)]
    /\ RoleFrame

NextRole ==
    \/ RoleConnect
    \/ RoleSocketClose
    \/ RoleSocketEnd
    \/ RoleDelayedSubscribe
    \/ RoleStaleDelayedSubscribe
    \/ RoleDisconnect
    \/ RoleSwitch

SpecRole == InitRole /\ [][NextRole]_vars

\* ---- one connection, its tasks interleaved at their awaits ---------------------
\* connect as the pool calls it: on a connection that is not connected
RoleReconnect ==
    /\ ~conns[1].connected
    /\ ~conns[1].subscribing
    /\ RoleConnect

RoleDelayedSubscribeSends ==
    /\ conns[1].delayed
    /\ conns[1].stale = 0
    /\ \E r \in {delayed_subscribe_sends(conns[1])} :
         /\ conns' = <<r.conn>>
         /\ last' = [op |-> "delayed_subscribe_sends", frames |-> r.frames]
    /\ RoleFrame

RoleDelayedSubscribeResumes ==
    /\ conns[1].subscribing
    /\ conns' = <<delayed_subscribe_resumes(conns[1])>>
    /\ last' = [op |-> "delayed_subscribe_resumes"]
    /\ RoleFrame

\* switch_role as the failover calls it: on a connection that is connected
RoleSwitchConnected ==
    /\ conns[1].connected
    /\ RoleSwitch

NextAwaits ==
    \/ RoleReconnect
    \/ RoleSwitchConnected
    \/ RoleSocketClose
    \/ RoleDelayedSubscribeSends
    \/ RoleDelayedSubscribeResumes
    \/ RoleDisconnect

SpecAwaits == InitRole /\ [][NextAwaits]_vars

\* ---- claims about the pool ---------------------------------------------------
ListedNow == Range(master_connections) \cup Range(warm_standby_connections)

MasterSlice(i) == conns[master_connections[i]].symbols

C2_MasterSlicesPartitionSymbols ==
    Started =>
        /\ \A a, b \in 1..Len(master_connections) :
              a # b => Range(MasterSlice(a)) \cap Range(MasterSlice(b)) = {}
        /\ UNION {Range(MasterSlice(a)) : a \in 1..Len(master_connections)}
              = Range(symbols)

\* C5: with 2 masters and 2 connected, inactive standbys, the monitor-loop
\* iteration that follows the close of master 0's socket ends with a former
\* standby at index 0 of the master list carrying symbol group 0, the master
\* list still of length 2, and a failover record for master index 0 stored
\* under failover_history.
C5_FailoverWithinOneTick ==
    [][(/\ last.op = "socket_close"
        /\ Len(master_connections) = 2
        /\ Len(warm_standby_connections) = 2
        /\ last.c = master_connections[1]
        /\ \A j \in 1..2 : /\ conns[warm_standby_connections[j]].connected
                           /\ ~conns[warm_standby_connections[j]].is_active
        /\ last'.op = "monitor_tick")
       => (/\ master_connections'[1] \in Range(warm_standby_connections)
           /\ conns'[master_connections'[1]].symbols = symbol_groups[1]
           /\ Len(master_connections') = 2
           /\ \E k \in 1..Len(connection_status'.failover_history) :
                 connection_status'.failover_history[k].master_index = 0)]_vars

\* C6: when the monitor loop finds masters disconnected and no standby is both
\* connected and not active, it calls connect on each such master in place and
\* the master list, the standby list, every connection's role and slice and
\* the failover history are unchanged.
C6_NoStandbyReconnectsInPlace ==
    [][(/\ last'.op = "monitor_tick"
        /\ FailedMasters(Pool) # {}
        /\ available_standbys(Pool) = {})
       => (/\ \A i \in FailedMasters(Pool) :
                 \E k \in 1..Len(last'.log) :
                    /\ last'.log[k].c = master_connections[i]
                    /\ last'.log[k].ev = "connect"
           /\ master_connections' = master_connections
           /\ warm_standby_connections' = warm_standby_connections
           /\ Len(conns') = Len(conns)
           /\ \A id \in 1..Len(conns) :
                 /\ conns'[id].connection_type = conns[id].connection_type
                 /\ conns'[id].symbols = conns[id].symbols
           /\ connection_status'.failover_history = connection_status.failover_history)]_vars

\* an iteration met a disconnected master with a non-empty slice and no
\* usable standby, and reconnected it
C6_Witness ==
    /\ last.op = "monitor_tick"
    /\ ~last.raised
    /\ last.available = {}
    /\ \E i \in last.failed :
          /\ MasterSlice(i) # <<>>
          /\ conns[master_connections[i]].connected

C8_RepeatedSwitchRoleIsNoOp ==
    [][(/\ last'.op = "switch_role"
        /\ last'.repeat)
       => (/\ last'.frames = <<>>
           /\ conns'[1].connection_type = conns[1].connection_type
           /\ conns'[1].symbols = conns[1].symbols
           /\ conns'[1].subscribed = conns[1].subscribed
           /\ conns'[1].is_active = conns[1].is_active)]_vars

\* the repeated call follows a promotion that subscribed to a new slice
C8_Witness ==
    /\ last.op = "switch_role"
    /\ last.repeat
    /\ last.role = MASTER
    /\ last.syms = <<2, 3>>
    /\ conns[1].connected
    /\ conns[1].subscribed
    /\ conns[1].symbols = <<2, 3>>

\* a pool on which nothing has run
FreshPool ==
    [symbols |-> <<>>, symbol_groups |-> <<>>, conns |-> <<>>,
     master_connections |-> <<>>, warm_standby_connections |-> <<>>,
     monitor_connection |-> NoConn, monitor_scheduler_task |-> "none",
     orphan_scheduler_tasks |-> 0,
     connection_status |-> EmptyStatus, log |-> <<>>]

\* C9: initialize, shutdown, initialize again with the same connect outcomes
\* leaves the master list and the standby list as long as one initialize does.
C9_RestartKeepsCounts ==
    (last.op = "reconnect_exchange" /\ last.same) =>
        LET single == initialize(FreshPool, config, last.n, last.mo, last.wo, 1, 1)
        IN /\ Len(master_connections) = Len(single.master_connections)
           /\ Len(warm_standby_connections) = Len(single.warm_standby_connections)

\* C10: when initialize returns (also at a restart), and when the admin's
\* start has run its re-verification, the pool holds a monitor-scheduling
\* task that has not completed, for any symbol list and connect outcomes.
C10_MonitorTaskAliveAfterInitialize ==
    last.op \in {"initialize", "reconnect_exchange", "admin_start"} =>
        monitor_scheduler_task = "running"

\* initialize returned for the empty list with no monitor connection made
C10_Witness ==
    /\ last.op = "initialize"
    /\ symbols = <<>>
    /\ master_connections = <<>>
    /\ ~monitor_connection.connected
    /\ monitor_scheduler_task = "running"

\* what the operation recorded in l sent and connected (empty for the
\* operations that record no log)
LogOf(l) ==
    IF l.op \in {"monitor_tick", "delayed_subscribe", "stale_delayed_subscribe"}
    THEN l.log ELSE <<>>

\* C11: on a connection whose role is warm_standby a subscribe frame is sent
\* only by the delayed-subscribe task of its most recent successful connect,
\* which wakes 10 + 5k seconds after that connect.  (A task of an earlier
\* connect that is still asleep wakes sooner than that after the latest
\* connect, all tasks of one connection sleeping 10 + 5k seconds.)
C11_StandbySubscribesOnlyAfterDelay ==
    [][\A k \in 1..Len(LogOf(last')) :
          (/\ LogOf(last')[k].ev = "SUBSCRIBE"
           /\ conns'[LogOf(last')[k].c].connection_type = WARM_STANDBY)
          => last'.op = "delayed_subscribe"]_vars

\* shutdown has returned: it ended a monitor scheduler task that was started
ShutDown == monitor_scheduler_task = "done"

\* C19: after shutdown every connection of the master list, of the standby
\* list and the monitor connection is disconnected and stays so, and no
\* monitor loop and no delayed-subscribe task takes a further step.
C19_NothingRunsAfterShutdown ==
    /\ [](ShutDown => /\ \A id \in ListedNow : ~conns[id].connected
                      /\ ~monitor_connection.connected)
    /\ [][ShutDown => last'.op \notin {"monitor_tick", "delayed_subscribe",
                                       "stale_delayed_subscribe"}]_vars

\* C20: when the socket of a connection closes the connection has connected,
\* subscribed and is_active false, and a connection that is not connected
\* becomes connected only by a call of connect.
C20_SocketCloseDisconnects ==
    [][/\ (last'.op \in {"socket_close", "socket_end"}
           => (~conns'[1].connected /\ ~conns'[1].subscribed /\ ~conns'[1].is_active))
       /\ ((~conns[1].connected /\ conns'[1].connected) => last'.op = "connect")]_vars

\* C23: with a standby connected and not active, _select_best_standby_from_pool
\* returns one of the standbys that are connected and not active (the one
\* whose tuple is least); it returns none only when there is no such standby.
C23_SelectReturnsAvailableStandby ==
    /\ available_standbys(Pool) # {}
       => /\ ~select_best_standby_from_pool(Pool).raised
          /\ select_best_standby_from_pool(Pool).standby \in available_standbys(Pool)
    /\ (/\ ~select_best_standby_from_pool(Pool).raised
        /\ select_best_standby_from_pool(Pool).standby = 0)
       => available_standbys(Pool) = {}

\* the call switch_role(r, S) of this step changes a warm standby into a
\* master or a master into a warm standby
RoleChange ==
    /\ last'.op = "switch_role"
    /\ conns[1].connection_type \in {MASTER, WARM_STANDBY}
    /\ last'.role # conns[1].connection_type

\* what C24 asks of such a call, given the slices S it is asked for
SwitchRoleContract(slices) ==
    (RoleChange /\ last'.syms \in slices)
    => /\ (conns[1].connected /\ conns[1].subscribed /\ conns[1].symbols # <<>>)
          => /\ last'.frames # <<>>
             /\ last'.frames[1] = [kind |-> "UNSUBSCRIBE", syms |-> conns[1].symbols]
       /\ \A j, k \in 1..Len(last'.frames) :
             (last'.frames[j].kind = "SUBSCRIBE" /\ last'.frames[k].kind = "UNSUBSCRIBE")
             => k < j
       /\ last'.ok
          => /\ conns'[1].connection_type = last'.role
             /\ conns'[1].symbols = last'.syms
             /\ (conns'[1].connected /\ last'.syms # <<>>)
                => /\ conns'[1].subscribed
                   /\ last'.frames[Len(last'.frames)]
                         = [kind |-> "SUBSCRIBE", syms |-> last'.syms]

\* C24: a switch_role(r, S) between warm standby and master unsubscribes the
\* old slice before it subscribes the new one, and when it returns true the
\* role is r, the slice is S, for every S and the empty list too, and a
\* connected connection is subscribed to S.
C24_SwitchRoleSwapsSlice == [][SwitchRoleContract(RoleSlices)]_vars

Connected(id) ==
    /\ conns'[id].connected
    /\ id <= Len(conns) => ~conns[id].connected

\* the sleeping _delayed_subscribe tasks of a connection
PendingDelayed(c) == (IF c.delayed THEN 1 ELSE 0) + c.stale

\* what C26 asks of every successful connect, a warm standby having one of
\* the given numbers of pending delayed subscribes
ConnectContract(pending) ==
    \A id \in 1..Len(conns') :
       Connected(id)
       => /\ conns'[id].connection_type = MASTER
             => (conns'[id].subscribed /\ conns'[id].is_active)
          /\ conns'[id].connection_type = WARM_STANDBY
             => (~conns'[id].subscribed /\ PendingDelayed(conns'[id]) \in pending)

\* C26: after a successful connect a master is subscribed and active, a warm
\* standby is not yet subscribed and has one pending delayed subscribe, and
\* the monitor connection is never subscribed or active.
C26_ConnectByRole ==
    /\ [](~monitor_connection.subscribed /\ ~monitor_connection.is_active)
    /\ [][ConnectContract({1})]_vars

\* C27: after disconnect the connection is not connected, not subscribed and
\* not active, and neither a delayed-subscribe task nor the receive task of
\* the connection takes a further step.
C27_NothingRunsAfterDisconnect ==
    /\ [](last.op = "disconnect"
          => (~conns[1].connected /\ ~conns[1].subscribed /\ ~conns[1].is_active))
    /\ [][last.op = "disconnect"
          => last'.op \notin {"delayed_subscribe", "stale_delayed_subscribe",
                              "socket_close", "socket_end"}]_vars

\* the snapshot _report_status_to_data_store writes for the lists of this state
StatusSnapshot ==
    <<[masters |-> Len(master_connections),
       warm_standbys |-> Len(warm_standby_connections),
       monitor |-> monitor_connection.exists]>>

\* an iteration of the monitor loop of the kinds given that changed the pool
\* ended with the status snapshot of the new lists written under websocket_pool
IterationReports(raising) ==
    (last'.op = "monitor_tick" /\ last'.raised \in raising)
       => (/\ ~last'.raised
           /\ connection_status'.websocket_pool = StatusSnapshot')

\* C29: in every iteration of the monitor loop, those that handle a master
\* failure or reconnect a standby included, the status reporter is called and
\* a snapshot of the pool is written under websocket_pool before the loop
\* sleeps.
C29_EveryIterationReports == [][IterationReports(BOOLEAN)]_vars

ConnectResults == {"true", "false", "timeout", "raise"}

Event(e, attempt, seconds) == [e |-> e, attempt |-> attempt, seconds |-> seconds]

\* a back-off that sleeps after every failed attempt (for the mutation test)
backoff_after_every_attempt(attempt) == <<Event("sleep", attempt, 2 ^ attempt)>>

\* the sleep that follows a failed attempt
backoff(attempt) ==
    IF attempt < max_retries THEN <<Event("sleep", attempt, 2 ^ attempt)>> ELSE <<>>

\* the for loop of _initialize_monitor_scheduler from the given attempt on, as
\* the sequence of what it does; results[a] is the outcome of attempt a
RECURSIVE monitor_scheduler_attempts(_, _)
monitor_scheduler_attempts(results, attempt) ==
    IF attempt > max_retries THEN <<Event("return_false", max_retries, 0)>>
    ELSE IF results[attempt] = "true"
    THEN <<Event("connect_true", attempt, 0), Event("create_task", attempt, 0),
           Event("return_true", attempt, 0)>>
    ELSE <<Event("connect_failed", attempt, 0)>> \o backoff(attempt)
         \o monitor_scheduler_attempts(results, attempt + 1)

\* the attempt whose connect returns true, 0 when none does
SuccessfulAttempt(results) ==
    IF \E a \in 1..max_retries : results[a] = "true"
    THEN CHOOSE a \in 1..max_retries :
            /\ results[a] = "true"
            /\ \A b \in 1..(a - 1) : results[b] # "true"
    ELSE 0

\* one call of _initialize_monitor_scheduler on a new pool
InitializeMonitorScheduler ==
    /\ last.op = "none"
    /\ \E monitor_enabled \in BOOLEAN, results \in [1..max_retries -> ConnectResults] :
         \E q \in {initialize_monitor_scheduler(Pool, monitor_enabled,
                                                SuccessfulAttempt(results))} :
            /\ SetPool(q)
            /\ last' = [op |-> "initialize_monitor_scheduler",
                        monitor_enabled |-> monitor_enabled,
                        results |-> results,
                        did |-> IF monitor_enabled
                                THEN monitor_scheduler_attempts(results, 1)
                                ELSE <<Event("return_none", 0, 0)>>]
    /\ UNCHANGED <<pipe_vars, config, closes>>

NextMonitorInit == InitializeMonitorScheduler

SpecMonitorInit == Init /\ [][NextMonitorInit]_vars

\* the positions in a sequence of events of those of the kinds given
At(did, kinds) == {k \in 1..Len(did) : did[k].e \in kinds}

\* C35: one call of _initialize_monitor_scheduler makes at most 3 connection
\* attempts, sleeps 2^attempt seconds only between two attempts (after
\* attempts 1 and 2, never after the last), starts the loop task only right
\* after a connect that succeeded, and returns false after three failed
\* attempts.
C35_MonitorInitBacksOff ==
    last.op = "initialize_monitor_scheduler"
    => /\ Cardinality(At(last.did, {"connect_true", "connect_failed"})) <= 3
       /\ \A k \in At(last.did, {"sleep"}) :
            /\ last.did[k].attempt \in {1, 2}
            /\ last.did[k].seconds = 2 ^ last.did[k].attempt
            /\ last.did[k - 1] = Event("connect_failed", last.did[k].attempt, 0)
            /\ k < Len(last.did)
            /\ last.did[k + 1].e \in {"connect_true", "connect_failed"}
       /\ \A k \in At(last.did, {"connect_failed"}) :
            last.did[k].attempt \in {1, 2} => last.did[k + 1].e = "sleep"
       /\ \A k \in At(last.did, {"create_task"}) : last.did[k - 1].e = "connect_true"
       /\ (monitor_scheduler_task = "running") = (At(last.did, {"create_task"}) # {})
       /\ (Cardinality(At(last.did, {"connect_failed"})) = 3)
            = (last.did[Len(last.did)].e = "return_false")

\* the first two attempts failed, each followed by its sleep, and the third
\* connected and started the loop
C35_Witness ==
    /\ last.op = "initialize_monitor_scheduler"
    /\ At(last.did, {"sleep"}) = {2, 4}
    /\ last.did[2].seconds = 2
    /\ last.did[4].seconds = 4
    /\ last.did[5].e = "connect_true"
    /\ monitor_scheduler_task = "running"

\* C36: at most one monitor-scheduling loop task of the pool is running:
\* every loop task that was started is the one held in monitor_scheduler_task
\* or has ended.
C36_OneSchedulerLoop == orphan_scheduler_tasks = 0

\* no element occurs twice in the sequence
NoDuplicates(seq) == \A i, j \in 1..Len(seq) : i # j => seq[i] # seq[j]

C38_FlagsImplyConnected ==
    \A id \in 1..Len(conns) :
       /\ conns[id].subscribed => conns[id].connected
       /\ conns[id].is_active
            => (conns[id].connected /\ conns[id].connection_type = MASTER)

NULL == [k |-> "null", v |-> 0]
EMPTY == [k |-> "empty", v |-> 0]
BAD == [k |-> "bad", v |-> 0]

Num(n) == [k |-> "num", v |-> n]

\* Python truth of a value that is None or a string
Truthy(x) == x.k \in {"num", "bad"}

\* contract names are strings, written as sequences of characters
BTC_USDT_SWAP == <<"B", "T", "C", "-", "U", "S", "D", "T", "-", "S", "W", "A", "P">>
ETH_USDT_SWAP == <<"E", "T", "H", "-", "U", "S", "D", "T", "-", "S", "W", "A", "P">>
BTCUSDT == <<"B", "T", "C", "U", "S", "D", "T">>
ETHUSDT == <<"E", "T", "H", "U", "S", "D", "T">>
DASH_SWAP == <<"-", "S", "W", "A", "P">>
DASH == <<"-">>

StartsWith(s, pat) == Len(s) >= Len(pat) /\ SubSeq(s, 1, Len(pat)) = pat

\* str.replace(pat, ""), for a non-empty pat
RECURSIVE Strip(_, _)
Strip(s, pat) ==
    IF s = <<>> THEN <<>>
    ELSE IF StartsWith(s, pat) THEN Strip(SubSeq(s, Len(pat) + 1, Len(s)), pat)
    ELSE <<Head(s)>> \o Strip(Tail(s), pat)

\* ---- Step1Filter ---------------------------------------------------------------
\* An event as PipelineManager.ingest_data receives it:
\*   exchange, data_type, symbol  the keys of the same names
\*   name   instId (okx) or s (binance) of the venue's message
\*   price  last / c;  rate  fundingRate / r;  time  fundingTime / T;
\*   next   nextFundingTime
\* FIELD_MAP: the payload keys each type_key fills from the event
FIELD_MAP ==
    [okx_ticker |-> {"contract_name", "latest_price"},
     okx_funding_rate |-> {"contract_name", "funding_rate", "current_settlement_time",
                           "next_settlement_time"},
     binance_ticker |-> {"contract_name", "latest_price"},
     binance_mark_price |-> {"contract_name", "funding_rate", "current_settlement_time"}]

type_key(raw_item) ==
    IF raw_item.exchange = "okx" /\ raw_item.data_type = "ticker" THEN "okx_ticker"
    ELSE IF raw_item.exchange = "okx" /\ raw_item.data_type = "funding_rate"
         THEN "okx_funding_rate"
    ELSE IF raw_item.exchange = "binance" /\ raw_item.data_type = "ticker"
         THEN "binance_ticker"
    ELSE IF raw_item.exchange = "binance" /\ raw_item.data_type = "mark_price"
         THEN "binance_mark_price"
    ELSE "unknown"

\* _extract_item: <<>> for None, else the one ExtractedData
extract_item(raw_item) ==
    IF type_key(raw_item) = "unknown" THEN <<>>
    ELSE LET fields == FIELD_MAP[type_key(raw_item)]
             payload ==
                 [contract_name |-> raw_item.name,
                  latest_price |-> IF "latest_price" \in fields THEN raw_item.price ELSE NULL,
                  funding_rate |-> IF "funding_rate" \in fields THEN raw_item.rate ELSE NULL,
                  current_settlement_time |->
                      IF "current_settlement_time" \in fields THEN raw_item.time ELSE NULL,
                  next_settlement_time |->
                      IF "next_settlement_time" \in fields THEN raw_item.next ELSE NULL]
             symbol ==
                 IF raw_item.exchange = "okx" /\ raw_item.name # <<>>
                 THEN Strip(Strip(raw_item.name, DASH_SWAP), DASH)
                 ELSE IF raw_item.exchange = "binance" /\ raw_item.symbol = <<>>
                 THEN raw_item.name
                 ELSE raw_item.symbol
         IN <<[data_type |-> type_key(raw_item), exchange |-> raw_item.exchange,
               symbol |-> symbol, payload |-> payload]>>

\* Step1Filter.process
RECURSIVE step1_process(_)
step1_process(raw_items) ==
    IF raw_items = <<>> THEN <<>>
    ELSE extract_item(Head(raw_items)) \o step1_process(Tail(raw_items))

\* ---- Step2Fusion ---------------------------------------------------------------
\* _to_int: None stays None, int(value) of a number, None when int() raises
to_int(value) == IF value.k = "num" THEN value ELSE NULL

\* the keys of grouped, in insertion order
RECURSIVE group_keys(_, _)
group_keys(items, seen) ==
    IF items = <<>> THEN <<>>
    ELSE LET key == <<Head(items).exchange, Head(items).symbol>>
         IN IF key \in seen THEN group_keys(Tail(items), seen)
            ELSE <<key>> \o group_keys(Tail(items), seen \cup {key})

\* the loop of _merge_okx from item i on
RECURSIVE merge_okx_loop(_, _, _)
merge_okx_loop(items, fused, i) ==
    IF i > Len(items) THEN fused
    ELSE LET item == items[i]
             f1 == IF fused.contract_name = <<>>
                   THEN [fused EXCEPT !.contract_name = item.payload.contract_name]
                   ELSE fused
             f2 == IF item.data_type = "okx_ticker"
                   THEN [f1 EXCEPT !.latest_price = item.payload.latest_price]
                   ELSE IF item.data_type = "okx_funding_rate"
                   THEN [f1 EXCEPT
                           !.funding_rate = item.payload.funding_rate,
                           !.current_settlement_time =
                               to_int(item.payload.current_settlement_time),
                           !.next_settlement_time =
                               to_int(item.payload.next_settlement_time)]
                   ELSE f1
         IN merge_okx_loop(items, f2, i + 1)

\* _merge_okx: <<>> for None
merge_okx(items, fused) ==
    LET f == merge_okx_loop(items, fused, 1)
    IN IF ~(Truthy(f.latest_price) \/ Truthy(f.funding_rate)) THEN <<>> ELSE <<f>>

\* a binance merge that takes the rate of a mark_price record when there is
\* one and fuses the group without it otherwise (for the mutation test)
merge_binance_without_mark_price(items, fused) ==
    LET marks == SelectSeq(items, LAMBDA it : it.data_type = "binance_mark_price")
        tickers == SelectSeq(items, LAMBDA it : it.data_type = "binance_ticker")
        f1 == IF marks = <<>> THEN fused
              ELSE [fused EXCEPT
                      !.contract_name = marks[1].payload.contract_name,
                      !.funding_rate = marks[1].payload.funding_rate,
                      !.current_settlement_time =
                          to_int(marks[1].payload.current_settlement_time)]
    IN <<IF tickers = <<>> THEN f1
         ELSE [f1 EXCEPT !.latest_price = tickers[1].payload.latest_price]>>

\* _merge_binance: <<>> for None
merge_binance(items, fused) ==
    LET marks == SelectSeq(items, LAMBDA it : it.data_type = "binance_mark_price")
        tickers == SelectSeq(items, LAMBDA it : it.data_type = "binance_ticker")
    IN IF marks = <<>> THEN <<>>
       ELSE LET f1 == [fused EXCEPT
                         !.contract_name = marks[1].payload.contract_name,
                         !.funding_rate = marks[1].payload.funding_rate,
                         !.current_settlement_time =
                             to_int(marks[1].payload.current_settlement_time)]
            IN IF f1.funding_rate = NULL THEN <<>>
               ELSE <<IF tickers = <<>> THEN f1
                      ELSE [f1 EXCEPT !.latest_price = tickers[1].payload.latest_price]>>

\* _merge_group
merge_group(items) ==
    LET fused == [exchange |-> items[1].exchange, symbol |-> items[1].symbol,
                  contract_name |-> <<>>, latest_price |-> NULL, funding_rate |-> NULL,
                  last_settlement_time |-> NULL, current_settlement_time |-> NULL,
                  next_settlement_time |-> NULL]
    IN IF items[1].exchange = "okx" THEN merge_okx(items, fused)
       ELSE IF items[1].exchange = "binance" THEN merge_binance(items, fused)
       ELSE <<>>

\* the loop of Step2Fusion.process over the groups
RECURSIVE step2_groups(_, _)
step2_groups(items, keys) ==
    IF keys = <<>> THEN <<>>
    ELSE merge_group(SelectSeq(items, LAMBDA it : <<it.exchange, it.symbol>> = Head(keys)))
         \o step2_groups(items, Tail(keys))

\* Step2Fusion.process
step2_process(step1_results) ==
    step2_groups(step1_results, group_keys(step1_results, {}))

\* ---- Step3Align ----------------------------------------------------------------
\* _ts_to_str.  The string "1970-01-DD HH:MM:SS" is written as the number
\* DDHHMMSS; the timestamps of the model lie in January 1970.
ts_to_str(ts) ==
    IF ts.k # "num" \/ ts.v <= 0 THEN NULL
    ELSE LET dt_bj == ts.v \div 1000 + 8 * 3600
         IN [k |-> "str",
             v |-> (1 + dt_bj \div 86400) * 1000000 + ((dt_bj % 86400) \div 3600) * 10000
                   + ((dt_bj % 3600) \div 60) * 100 + (dt_bj % 60)]

\* an alignment that gives up on a symbol whose current settlement time has
\* no rendering (for the mutation test)
align_item_requiring_times(symbol, okx_item, binance_item) ==
    IF ts_to_str(okx_item.current_settlement_time) = NULL
       \/ ts_to_str(binance_item.current_settlement_time) = NULL
    THEN <<>>
    ELSE <<[symbol |-> symbol,
            okx_contract_name |-> okx_item.contract_name,
            binance_contract_name |-> binance_item.contract_name,
            okx_price |-> okx_item.latest_price,
            okx_funding_rate |-> okx_item.funding_rate,
            okx_last_settlement |-> NULL,
            okx_current_settlement |-> ts_to_str(okx_item.current_settlement_time),
            okx_next_settlement |-> ts_to_str(okx_item.next_settlement_time),
            binance_price |-> binance_item.latest_price,
            binance_funding_rate |-> binance_item.funding_rate,
            binance_last_settlement |-> ts_to_str(binance_item.last_settlement_time),
            binance_current_settlement |-> ts_to_str(binance_item.current_settlement_time),
            binance_next_settlement |-> NULL,
            okx_current_ts |-> okx_item.current_settlement_time,
            okx_next_ts |-> okx_item.next_settlement_time,
            binance_current_ts |-> binance_item.current_settlement_time,
            binance_last_ts |-> binance_item.last_settlement_time]>>

\* _align_item, called with both items present: <<>> for None
align_item(symbol, okx_item, binance_item) ==
    <<[symbol |-> symbol,
       okx_contract_name |-> okx_item.contract_name,
       binance_contract_name |-> binance_item.contract_name,
       okx_price |-> okx_item.latest_price,
       okx_funding_rate |-> okx_item.funding_rate,
       okx_last_settlement |-> NULL,
       okx_current_settlement |-> ts_to_str(okx_item.current_settlement_time),
       okx_next_settlement |-> ts_to_str(okx_item.next_settlement_time),
       binance_price |-> binance_item.latest_price,
       binance_funding_rate |-> binance_item.funding_rate,
       binance_last_settlement |-> ts_to_str(binance_item.last_settlement_time),
       binance_current_settlement |-> ts_to_str(binance_item.current_settlement_time),
       binance_next_settlement |-> NULL,
       okx_current_ts |-> okx_item.current_settlement_time,
       okx_next_ts |-> okx_item.next_settlement_time,
       binance_current_ts |-> binance_item.current_settlement_time,
       binance_last_ts |-> binance_item.last_settlement_time]>>

\* the keys of grouped in Step3Align.process, in insertion order
RECURSIVE symbol_keys(_, _)
symbol_keys(fused_results, seen) ==
    IF fused_results = <<>> THEN <<>>
    ELSE IF Head(fused_results).symbol \in seen
    THEN symbol_keys(Tail(fused_results), seen)
    ELSE <<Head(fused_results).symbol>>
         \o symbol_keys(Tail(fused_results), seen \cup {Head(fused_results).symbol})

\* grouped[symbol][exchange]: the last item of the venue for the symbol,
\* <<>> for None
grouped_item(fused_results, symbol, exchange) ==
    LET its == SelectSeq(fused_results,
                         LAMBDA it : it.symbol = symbol /\ it.exchange = exchange)
    IN IF its = <<>> THEN <<>> ELSE <<its[Len(its)]>>

\* the second loop of a process that keeps every symbol of venue okx, filling
\* the binance side from the okx item when binance has none (for the
\* mutation test)
RECURSIVE step3_symbols_of_okx(_, _)
step3_symbols_of_okx(fused_results, keys) ==
    IF keys = <<>> THEN <<>>
    ELSE LET okx == grouped_item(fused_results, Head(keys), "okx")
             binance == grouped_item(fused_results, Head(keys), "binance")
         IN (IF okx # <<>>
             THEN align_item(Head(keys), okx[1], IF binance # <<>> THEN binance[1] ELSE okx[1])
             ELSE <<>>)
            \o step3_symbols_of_okx(fused_results, Tail(keys))

\* the second loop of Step3Align.process
RECURSIVE step3_symbols(_, _)
step3_symbols(fused_results, keys) ==
    IF keys = <<>> THEN <<>>
    ELSE LET okx == grouped_item(fused_results, Head(keys), "okx")
             binance == grouped_item(fused_results, Head(keys), "binance")
         IN (IF okx # <<>> /\ binance # <<>>
             THEN align_item(Head(keys), okx[1], binance[1])
             ELSE <<>>)
            \o step3_symbols(fused_results, Tail(keys))

\* a process that aligns every fused record with itself, whatever venues the
\* symbol has (for the mutation test)
RECURSIVE step3_process_single_venue(_)
step3_process_single_venue(fused_results) ==
    IF fused_results = <<>> THEN <<>>
    ELSE align_item(Head(fused_results).symbol, Head(fused_results), Head(fused_results))
         \o step3_process_single_venue(Tail(fused_results))

\* Step3Align.process
step3_process(fused_results) ==
    step3_symbols(fused_results, symbol_keys(fused_results, {}))

\* ---- the stages applied to lists of events -------------------------------------
\* longest list of events given to Step1Filter.process, and longest list of
\* fused records given to Step3Align.process directly
MaxBatch == 3
MaxFused == 2

StageSymbols == {BTCUSDT, ETHUSDT}

InstId(symbol) == IF symbol = BTCUSDT THEN BTC_USDT_SWAP ELSE ETH_USDT_SWAP

\* settlement times of the events: none, invalid ones, 01:00:00 UTC of
\* 1 January 1970 in milliseconds, and a string that is no number
StageTimes == {NULL, Num(-1), Num(0), Num(3600000), BAD}

OkxTicker(symbol) ==
    [exchange |-> "okx", data_type |-> "ticker", symbol |-> symbol,
     name |-> InstId(symbol), price |-> Num(60000), rate |-> NULL, time |-> NULL,
     next |-> NULL]

OkxFundingRate(symbol, time) ==
    [exchange |-> "okx", data_type |-> "funding_rate", symbol |-> symbol,
     name |-> InstId(symbol), price |-> NULL, rate |-> Num(12), time |-> time,
     next |-> time]

BinanceTicker(symbol) ==
    [exchange |-> "binance", data_type |-> "ticker", symbol |-> symbol,
     name |-> symbol, price |-> Num(60010), rate |-> NULL, time |-> NULL,
     next |-> NULL]

BinanceMarkPrice(symbol, rate, time) ==
    [exchange |-> "binance", data_type |-> "mark_price", symbol |-> symbol,
     name |-> symbol, price |-> NULL, rate |-> rate, time |-> time, next |-> NULL]

\* an event whose type_key is not in FIELD_MAP
OkxMarkPrice(symbol) ==
    [exchange |-> "okx", data_type |-> "mark_price", symbol |-> symbol,
     name |-> InstId(symbol), price |-> NULL, rate |-> Num(12), time |-> NULL,
     next |-> NULL]

\* every kind of event for BTCUSDT, and the well-formed ones for ETHUSDT
StageEvents ==
    {OkxTicker(s) : s \in StageSymbols}
    \cup {OkxFundingRate(BTCUSDT, tm) : tm \in StageTimes}
    \cup {OkxFundingRate(ETHUSDT, Num(3600000))}
    \cup {BinanceTicker(s) : s \in StageSymbols}
    \cup {BinanceMarkPrice(BTCUSDT, Num(10), tm) : tm \in StageTimes \ {BAD}}
    \cup {BinanceMarkPrice(ETHUSDT, Num(10), Num(3600000))}
    \cup {BinanceMarkPrice(BTCUSDT, NULL, Num(3600000))}
    \cup {OkxMarkPrice(BTCUSDT)}

SeqsUpTo(S, n) == UNION {[1..m -> S] : m \in 0..n}

\* the fused records Step2Fusion makes of at most two events
StageFused ==
    UNION {Range(step2_process(step1_process(b))) : b \in SeqsUpTo(StageEvents, 2)}

\* a pool on which nothing runs
PoolIdle ==
    /\ config = [symbols_per_master |-> PoolPerMaster, masters_count |-> PoolMasters,
                 warm_standbys_count |-> PoolStandbys, monitor_enabled |-> TRUE]
    /\ symbols = <<>>
    /\ symbol_groups = <<>>
    /\ conns = <<>>
    /\ master_connections = <<>>
    /\ warm_standby_connections = <<>>
    /\ monitor_connection = NoConn
    /\ monitor_scheduler_task = "none"
    /\ orphan_scheduler_tasks = 0
    /\ connection_status = EmptyStatus
    /\ closes = 0

InitStages ==
    /\ PoolIdle
    /\ PipelineInit(TRUE)
    /\ last = NoLast

\* Step1Filter, Step2Fusion and Step3Align applied in turn to a list of events
StageBatch ==
    /\ last.op = "none"
    /\ \E b \in SeqsUpTo(StageEvents, MaxBatch) :
         \E s1 \in {step1_process(b)} :
           \E s2 \in {step2_process(s1)} :
              last' = [op |-> "stages", raw |-> b, extracted |-> s1, fused |-> s2,
                       aligned |-> step3_process(s2)]
    /\ UNCHANGED <<pool_vars, pipe_vars>>

\* Step3Align.process applied to a list of fused records
StageAlign ==
    /\ last.op = "none"
    /\ \E f \in SeqsUpTo(StageFused, MaxFused) :
         last' = [op |-> "align", fused |-> f, aligned |-> step3_process(f)]
    /\ UNCHANGED <<pool_vars, pipe_vars>>

NextStages ==
    \/ StageBatch
    \/ StageAlign

SpecStages == InitStages /\ [][NextStages]_vars

\* C15: every fused record Step2Fusion emits for binance has a funding rate
\* that is not null, and comes from a group that holds a mark_price record;
\* a binance group without one yields no fused record.
C15_BinanceFusedNeedsMarkPrice ==
    last.op = "stages" =>
        \A k \in 1..Len(last.fused) :
            last.fused[k].exchange = "binance" =>
                /\ last.fused[k].funding_rate # NULL
                /\ \E j \in 1..Len(last.extracted) :
                      /\ last.extracted[j].exchange = "binance"
                      /\ last.extracted[j].symbol = last.fused[k].symbol
                      /\ last.extracted[j].data_type = "binance_mark_price"

\* a list with a binance ticker of one symbol alone and a fused binance record
\* of the other symbol
C15_Witness ==
    /\ last.op = "stages"
    /\ \E j \in 1..Len(last.extracted) :
          /\ last.extracted[j].data_type = "binance_ticker"
          /\ \A k \in 1..Len(last.fused) :
                ~(last.fused[k].exchange = "binance"
                  /\ last.fused[k].symbol = last.extracted[j].symbol)
    /\ \E k \in 1..Len(last.fused) : last.fused[k].exchange = "binance"

\* the fused records of a venue for a symbol in the input of Step3Align
FusedOf(exchange, symbol) ==
    {k \in 1..Len(last.fused) :
        last.fused[k].exchange = exchange /\ last.fused[k].symbol = symbol}

\* C16: Step3Align.process emits exactly one aligned record for each symbol
\* that has an okx and a binance fused record in its input, none for any other
\* symbol, and fills both venues' fields of a record from fused records with
\* the record's symbol.
C16_AlignOnePerCommonSymbol ==
    last.op \in {"stages", "align"} =>
        /\ \A k \in 1..Len(last.fused) :
              LET s == last.fused[k].symbol
              IN Cardinality({a \in 1..Len(last.aligned) : last.aligned[a].symbol = s})
                    = (IF FusedOf("okx", s) # {} /\ FusedOf("binance", s) # {} THEN 1 ELSE 0)
        /\ \A a \in 1..Len(last.aligned) :
              LET r == last.aligned[a]
              IN /\ \E o \in FusedOf("okx", r.symbol) :
                       /\ r.okx_contract_name = last.fused[o].contract_name
                       /\ r.okx_price = last.fused[o].latest_price
                       /\ r.okx_funding_rate = last.fused[o].funding_rate
                       /\ r.okx_current_ts = last.fused[o].current_settlement_time
                       /\ r.okx_next_ts = last.fused[o].next_settlement_time
                 /\ \E b \in FusedOf("binance", r.symbol) :
                       /\ r.binance_contract_name = last.fused[b].contract_name
                       /\ r.binance_price = last.fused[b].latest_price
                       /\ r.binance_funding_rate = last.fused[b].funding_rate
                       /\ r.binance_current_ts = last.fused[b].current_settlement_time
                       /\ r.binance_last_ts = last.fused[b].last_settlement_time

\* one symbol on both venues was aligned beside a symbol of one venue only
C16_Witness ==
    /\ last.op = "stages"
    /\ Len(last.aligned) = 1
    /\ \E k \in 1..Len(last.fused) : last.fused[k].symbol # last.aligned[1].symbol

\* a settlement timestamp that _ts_to_str does not render
InvalidTs(ts) == ts.k # "num" \/ ts.v <= 0

\* the fused record with a valid current settlement time in place of an invalid one
WithValidTs(f) ==
    IF InvalidTs(f.current_settlement_time)
    THEN [f EXCEPT !.current_settlement_time = Num(3600000)]
    ELSE f

\* an aligned record without its current-settlement fields
WithoutCurrent(r) ==
    [r EXCEPT !.okx_current_settlement = NULL, !.okx_current_ts = NULL,
              !.binance_current_settlement = NULL, !.binance_current_ts = NULL]

MaxSlice == 4
SubscribeBatch == 4
UnsubscribeBatchOkx == 2

\* the (channel or stream, symbol) entries built for a slice, two per symbol
RECURSIVE entries_of(_, _, _)
entries_of(syms, first, second) ==
    IF syms = <<>> THEN <<>>
    ELSE <<<<first, Head(syms)>>, <<second, Head(syms)>>>>
         \o entries_of(Tail(syms), first, second)

\* one frame per batch
frames_of(kind, batches) ==
    [k \in 1..Len(batches) |-> [kind |-> kind, entries |-> batches[k]]]

\* _subscribe_binance
subscribe_binance(syms) ==
    frames_of("SUBSCRIBE",
              ChunkGroups(entries_of(syms, "ticker", "markPrice"), SubscribeBatch))

\* _subscribe_okx
subscribe_okx(syms) ==
    frames_of("subscribe",
              ChunkGroups(entries_of(syms, "tickers", "funding-rate"), SubscribeBatch))

\* _subscribe
subscribe(exchange, syms) ==
    IF syms = <<>> THEN <<>>
    ELSE IF exchange = "binance" THEN subscribe_binance(syms)
    ELSE subscribe_okx(syms)

\* the okx branch of _unsubscribe: batches of symbols, one tickers entry each
unsubscribe_okx(syms) ==
    frames_of("unsubscribe",
              [k \in 1..Len(ChunkGroups(syms, UnsubscribeBatchOkx)) |->
                  [j \in 1..Len(ChunkGroups(syms, UnsubscribeBatchOkx)[k]) |->
                      <<"tickers", ChunkGroups(syms, UnsubscribeBatchOkx)[k][j]>>]])

\* _unsubscribe
unsubscribe(exchange, syms) ==
    IF syms = <<>> THEN <<>>
    ELSE IF exchange = "binance"
    THEN frames_of("UNSUBSCRIBE",
                   ChunkGroups(entries_of(syms, "ticker", "markPrice"), SubscribeBatch))
    ELSE unsubscribe_okx(syms)

\* the entries the frames carry
Entries(frames) == UNION {Range(frames[k].entries) : k \in 1..Len(frames)}

InitFrames ==
    /\ PoolIdle
    /\ PipelineInit(TRUE)
    /\ last = NoLast

\* _subscribe and _unsubscribe applied to the same slice of a venue
SliceFrames ==
    /\ last.op = "none"
    /\ \E exchange \in {"binance", "okx"}, syms \in SeqsUpTo(1..MaxSlice, MaxSlice) :
         last' = [op |-> "frames", exchange |-> exchange, symbols |-> syms,
                  sub |-> subscribe(exchange, syms),
                  unsub |-> unsubscribe(exchange, syms)]
    /\ UNCHANGED <<pool_vars, pipe_vars>>

NextFrames == SliceFrames

SpecFrames == InitFrames /\ [][NextFrames]_vars

\* what C28 asks of the venues named
SameEntries(venues) ==
    (last.op = "frames" /\ last.exchange \in venues)
    => Entries(last.unsub) = Entries(last.sub)

\* C28: for each venue and every slice the frames of unsubscribe carry the
\* same set of (channel or stream, symbol) entries as the frames of subscribe.
C28_UnsubscribeMirrorsSubscribe == SameEntries({"binance", "okx"})

\* ---- PipelineManager -----------------------------------------------------------
\* most events read from the sockets in one behaviour
MaxEvents == 4

\* data_type of an event that has the key with the value None
NoneType == "None"

\* an account event as DataStore.update_account_data builds it (symbol "N/A",
\* written <<>>) and an event whose data_type is None
AccountBalance ==
    [exchange |-> "binance", data_type |-> "account_balance", symbol |-> <<>>,
     name |-> <<>>, price |-> NULL, rate |-> NULL, time |-> NULL, next |-> NULL]

Untyped ==
    [exchange |-> "okx", data_type |-> NoneType, symbol |-> BTCUSDT,
     name |-> BTC_USDT_SWAP, price |-> NULL, rate |-> NULL, time |-> NULL, next |-> NULL]

\* the four market events of one symbol, in the order of the two-venue scenario
ScenarioEvents ==
    <<OkxTicker(BTCUSDT), OkxFundingRate(BTCUSDT, Num(3600000)),
      BinanceTicker(BTCUSDT), BinanceMarkPrice(BTCUSDT, Num(10), Num(3600000))>>

PipelineEvents == Range(ScenarioEvents) \cup {AccountBalance, Untyped}

\* the classification at the head of ingest_data: startswith on None raises
category(data_type) ==
    IF data_type = NoneType THEN "raise"
    ELSE IF data_type \in {"ticker", "funding_rate", "mark_price"} THEN "MARKET"
    ELSE IF data_type \in {"account_balance", "order"} THEN "ACCOUNT"
    ELSE "MARKET"

\* Step4Calc.process: each aligned record enriched per venue; the derived
\* fields are not modelled
step4_process(step3_results) == step3_results

Diff(a, b) == IF a.k = "num" /\ b.k = "num" THEN Num(a.v - b.v) ELSE NULL

\* Step5CrossCalc.process: the final record is the upstream record with the
\* differences between the venues
step5_process(step4_results) ==
    [i \in 1..Len(step4_results) |->
        [rec |-> step4_results[i],
         price_basis |-> Diff(step4_results[i].okx_price, step4_results[i].binance_price),
         rate_diff |-> Diff(step4_results[i].okx_funding_rate,
                            step4_results[i].binance_funding_rate)]]

\* _process_market_data with the guard after Step3 handing the event itself
\* on when the stage returned nothing (for the mutation test)
process_market_data_forwarding(data) ==
    LET step3_results == step3_process(step2_process(step1_process(<<data>>)))
    IN IF step3_results = <<>> THEN <<data>>
       ELSE step5_process(step4_process(step3_results))

\* _process_market_data up to the push: final_results, <<>> when a stage
\* returned nothing
process_market_data(data) ==
    LET step1_results == step1_process(<<data>>)
        step2_results == step2_process(step1_results)
        step3_results == step3_process(step2_results)
        step4_results == step4_process(step3_results)
    IN IF step1_results = <<>> THEN <<>>
       ELSE IF step2_results = <<>> THEN <<>>
       ELSE IF step3_results = <<>> THEN <<>>
       ELSE IF step4_results = <<>> THEN <<>>
       ELSE step5_process(step4_results)

\* the results of the stages _process_market_data invokes for an event, in
\* order: it returns after the first stage whose result is empty
stage_results(data) ==
    LET step1_results == step1_process(<<data>>)
        step2_results == step2_process(step1_results)
        step3_results == step3_process(step2_results)
        step4_results == step4_process(step3_results)
    IN IF step1_results = <<>> THEN <<step1_results>>
       ELSE IF step2_results = <<>> THEN <<step1_results, step2_results>>
       ELSE IF step3_results = <<>> THEN <<step1_results, step2_results, step3_results>>
       ELSE IF step4_results = <<>>
       THEN <<step1_results, step2_results, step3_results, step4_results>>
       ELSE <<step1_results, step2_results, step3_results, step4_results,
              step5_process(step4_results)>>

\* asyncio.Lock.acquire takes the lock at once when it is free and nobody
\* waits; the variant takes a free lock past the waiters (for the mutation
\* test)
CanAcquireBarging(lock) == lock.holder = 0

CanAcquire(lock) == lock.holder = 0 /\ lock.waiters = <<>>

\* the except clause of ingest_data; the variant also counts the event as
\* processed (for the mutation test)
on_exception_counting(c) ==
    [c EXCEPT !.errors = @ + 1, !.market_processed = @ + 1]

on_exception(c) == [c EXCEPT !.errors = @ + 1]

\* the counter a finished event increments
processed(c, data_type) ==
    IF category(data_type) = "ACCOUNT"
    THEN [c EXCEPT !.account_processed = @ + 1]
    ELSE [c EXCEPT !.market_processed = @ + 1]

\* one call of brain_callback for event id: with the first of the final
\* records out of a market event, or with the account event itself
Delivery(id, data, out) ==
    [id |-> id, kind |-> category(data.data_type),
     final |-> IF category(data.data_type) = "MARKET" THEN <<Head(out)>> ELSE <<>>]

\* the body of `async with self.processing_lock` of task t for event id, run
\* up to its first await of the callback; w are the tasks left waiting
Enter(t, id, data, w) ==
    LET out == IF category(data.data_type) = "MARKET"
               THEN process_market_data(data) ELSE <<data>>
    IN /\ entered' = Append(entered, id)
       /\ IF category(data.data_type) = "MARKET" /\ out = <<>>
          THEN /\ processing_lock' = [holder |-> 0, waiters |-> w]
               /\ tasks' = [tasks EXCEPT ![t] = IdleTask]
               /\ UNCHANGED <<counters, delivered>>
               /\ last' = [op |-> "ingest_data", t |-> t, id |-> id, result |-> "true"]
          ELSE IF ~brain_callback
          THEN /\ processing_lock' = [holder |-> 0, waiters |-> w]
               /\ tasks' = [tasks EXCEPT ![t] = IdleTask]
               /\ counters' = processed(counters, data.data_type)
               /\ UNCHANGED delivered
               /\ last' = [op |-> "ingest_data", t |-> t, id |-> id, result |-> "true"]
          ELSE /\ processing_lock' = [holder |-> t, waiters |-> w]
               /\ tasks' = [tasks EXCEPT ![t] = [pc |-> "callback", id |-> id,
                                                 pending |-> out]]
               /\ delivered' = Append(delivered, Delivery(id, data, out))
               /\ UNCHANGED counters
               /\ last' = [op |-> "ingest_data", t |-> t, id |-> id, result |-> "pending"]

\* the body of `async with self.locks['market_data']` of update_market_data:
\* the entry of (exchange, symbol, data_type) is stored and marked the latest
store_market_data(md, data) ==
    {[e EXCEPT !.latest = FALSE] :
        e \in {x \in md : ~(/\ x.exchange = data.exchange /\ x.symbol = data.symbol
                             /\ x.data_type = data.data_type)}}
    \cup {[exchange |-> data.exchange, symbol |-> data.symbol,
           data_type |-> data.data_type, latest |-> TRUE]}

\* the end of the `async with` block of update_market_data, which comes before
\* the call of ingest_data; the variant keeps the mutex over that call (for the
\* mutation test)
market_data_lock_exit_after_ingest(lock) == lock

market_data_lock_exit(lock) == [lock EXCEPT !.holder = 0]

\* update_market_data of task t up to its call of ingest_data; account events
\* come through update_account_data, which takes another mutex
StoreAccess(t, data) ==
    IF category(data.data_type) = "ACCOUNT"
    THEN UNCHANGED <<market_data_lock, market_data>>
    ELSE /\ CanAcquire(market_data_lock)
         /\ market_data' = store_market_data(market_data, data)
         /\ market_data_lock' = market_data_lock_exit([market_data_lock EXCEPT !.holder = t])

\* get_market_data(exchange): the (symbol, data_type) entries of the venue
get_market_data(md, exchange) ==
    {<<e.symbol, e.data_type>> : e \in {x \in md : x.exchange = exchange}}

\* the receive loop of connection t reads an event and hands it to
\* DataStore.update_market_data / update_account_data, which call ingest_data
IngestData(t) ==
    /\ tasks[t].pc = "idle"
    /\ Len(ingested) < MaxEvents
    /\ \E data \in PipelineEvents :
         /\ ingested' = Append(ingested, data)
         /\ StoreAccess(t, data)
         /\ IF category(data.data_type) = "raise"
            THEN /\ counters' = on_exception(counters)
                 /\ UNCHANGED <<processing_lock, tasks, delivered, entered>>
                 /\ last' = [op |-> "ingest_data", t |-> t, id |-> Len(ingested) + 1,
                             result |-> "false"]
            ELSE IF CanAcquire(processing_lock)
            THEN Enter(t, Len(ingested) + 1, data, processing_lock.waiters)
            ELSE /\ processing_lock' = [processing_lock EXCEPT !.waiters = Append(@, t)]
                 /\ tasks' = [tasks EXCEPT ![t] = [pc |-> "waiting",
                                                   id |-> Len(ingested) + 1,
                                                   pending |-> <<>>]]
                 /\ UNCHANGED <<counters, delivered, entered>>
                 /\ last' = [op |-> "ingest_data", t |-> t, id |-> Len(ingested) + 1,
                             result |-> "waiting"]
    /\ UNCHANGED <<pool_vars, brain_callback>>

\* a reader of the store (the HTTP handlers) calls get_market_data
GetMarketData ==
    /\ last.op # "get_market_data"
    /\ CanAcquire(market_data_lock)
    /\ \E exchange \in {"binance", "okx"} :
         last' = [op |-> "get_market_data", exchange |-> exchange,
                  result |-> get_market_data(market_data, exchange)]
    /\ UNCHANGED <<pool_vars, pipe_vars>>

\* the released lock wakes its first waiter
AcquireLock(t) ==
    /\ tasks[t].pc = "waiting"
    /\ processing_lock.holder = 0
    /\ processing_lock.waiters # <<>>
    /\ Head(processing_lock.waiters) = t
    /\ Enter(t, tasks[t].id, ingested[tasks[t].id], Tail(processing_lock.waiters))
    /\ UNCHANGED <<pool_vars, brain_callback, ingested, market_data_lock, market_data>>

\* the awaited brain_callback of task t returns or raises
CallbackReturns(t) ==
    /\ tasks[t].pc = "callback"
    /\ \E raises \in BOOLEAN :
         IF raises
         THEN /\ counters' = on_exception(counters)
              /\ processing_lock' = [processing_lock EXCEPT !.holder = 0]
              /\ tasks' = [tasks EXCEPT ![t] = IdleTask]
              /\ UNCHANGED delivered
              /\ last' = [op |-> "callback", t |-> t, id |-> tasks[t].id,
                          result |-> "false"]
         ELSE IF Len(tasks[t].pending) > 1
         THEN /\ tasks' = [tasks EXCEPT ![t].pending = Tail(@)]
              /\ delivered' = Append(delivered,
                                     Delivery(tasks[t].id, ingested[tasks[t].id],
                                              Tail(tasks[t].pending)))
              /\ UNCHANGED <<counters, processing_lock>>
              /\ last' = [op |-> "callback", t |-> t, id |-> tasks[t].id,
                          result |-> "pending"]
         ELSE /\ counters' = processed(counters, ingested[tasks[t].id].data_type)
              /\ processing_lock' = [processing_lock EXCEPT !.holder = 0]
              /\ tasks' = [tasks EXCEPT ![t] = IdleTask]
              /\ UNCHANGED delivered
              /\ last' = [op |-> "callback", t |-> t, id |-> tasks[t].id,
                          result |-> "true"]
    /\ UNCHANGED <<pool_vars, brain_callback, ingested, entered, market_data_lock,
                   market_data>>

\* a PipelineManager with or without a downstream callback
InitPipeline ==
    /\ PoolIdle
    /\ \E callback_given \in BOOLEAN : PipelineInit(callback_given)
    /\ last = NoLast

NextPipeline ==
    \/ \E t \in 1..NTasks : IngestData(t)
    \/ \E t \in 1..NTasks : AcquireLock(t)
    \/ \E t \in 1..NTasks : CallbackReturns(t)

SpecPipeline == InitPipeline /\ [][NextPipeline]_vars

\* the pipeline with its callers and a reader of the store
NextStore ==
    \/ \E t \in 1..NTasks : IngestData(t)
    \/ \E t \in 1..NTasks : AcquireLock(t)
    \/ \E t \in 1..NTasks : CallbackReturns(t)
    \/ GetMarketData

SpecStore == InitPipeline /\ [][NextStore]_vars

\* task t waits for or holds processing_lock
InPipeline(t) == tasks[t].pc \in {"waiting", "callback"}

\* C32: no task holds the market-data mutex while it waits for or holds the
\* pipeline mutex, and while an event is inside the pipeline or the callback
\* the market-data mutex is free for another update_market_data or
\* get_market_data.
C32_StoreMutexReleasedBeforeIngest ==
    /\ \A t \in 1..NTasks : InPipeline(t) => market_data_lock.holder # t
    /\ (\E t \in 1..NTasks : InPipeline(t)) => CanAcquire(market_data_lock)

\* get_market_data returned an entry stored by a task that still waits for
\* the pipeline mutex, while another task is inside the callback
C32_Witness ==
    /\ last.op = "get_market_data"
    /\ \E t \in 1..NTasks : tasks[t].pc = "callback"
    /\ \E t \in 1..NTasks :
          /\ tasks[t].pc = "waiting"
          /\ <<ingested[tasks[t].id].symbol, ingested[tasks[t].id].data_type>>
                \in last.result

AllIdle == \A t \in 1..NTasks : tasks[t] = IdleTask

\* the calls of brain_callback with a market record
MarketDeliveries == SelectSeq(delivered, LAMBDA d : d.kind = "MARKET")

\* C12: once the okx ticker, the okx funding_rate, the binance ticker and the
\* binance mark_price of one symbol have been ingested in this order and
\* processed, the callback has received exactly one final record, and it
\* carries the price and the rate of both venues.
C12_ScenarioDeliversOneRecord ==
    (brain_callback /\ ingested = ScenarioEvents /\ Len(entered) = 4 /\ AllIdle)
    => /\ Len(MarketDeliveries) = 1
       /\ MarketDeliveries[1].final[1].rec.okx_price = Num(60000)
       /\ MarketDeliveries[1].final[1].rec.okx_funding_rate = Num(12)
       /\ MarketDeliveries[1].final[1].rec.binance_price = Num(60010)
       /\ MarketDeliveries[1].final[1].rec.binance_funding_rate = Num(10)

\* the fused records that reached Step3Align while event id was processed
ReachedS3(id) == step2_process(step1_process(<<ingested[id]>>))

\* C13: the callback is invoked with a market record of a symbol only if fused
\* records of that symbol from both venues reached Step3Align; when every
\* ingested event is a market event of binance the callback has never been
\* invoked.
C13_CallbackOnlyForTwoVenueSymbols ==
    /\ \A i \in 1..Len(delivered) :
         delivered[i].kind = "MARKET"
         => /\ grouped_item(ReachedS3(delivered[i].id),
                            delivered[i].final[1].rec.symbol, "okx") # <<>>
            /\ grouped_item(ReachedS3(delivered[i].id),
                            delivered[i].final[1].rec.symbol, "binance") # <<>>
    /\ (\A i \in 1..Len(ingested) :
          ingested[i].exchange = "binance" /\ category(ingested[i].data_type) = "MARKET")
       => delivered = <<>>

\* a binance mark_price event alone went through the pipeline of a manager
\* that has a callback
C13_Witness ==
    /\ brain_callback
    /\ ingested = <<BinanceMarkPrice(BTCUSDT, Num(10), Num(3600000))>>
    /\ entered = <<1>>
    /\ AllIdle
    /\ delivered = <<>>

\* venue and symbol of the event read as the id-th
KeyOf(id) == <<ingested[id].exchange, ingested[id].symbol>>

C18_FailureIsCountedAndReleased ==
    /\ [](\A i, j \in 1..Len(delivered) :
            (delivered[i].kind = "ACCOUNT" /\ delivered[i].id = delivered[j].id) => i = j)
    /\ [][last'.result = "false"
          => /\ counters'.errors = counters.errors + 1
             /\ counters'.market_processed = counters.market_processed
             /\ processing_lock'.holder # last'.t
             /\ \A k \in 1..Len(processing_lock'.waiters) :
                  processing_lock'.waiters[k] # last'.t
             /\ tasks'[last'.t] = IdleTask
             /\ delivered' = delivered]_vars

\* the callback raised on the first account event, and the second one, read
\* afterwards, was processed and counted
C18_Witness ==
    /\ ingested = <<AccountBalance, AccountBalance>>
    /\ counters.errors = 1
    /\ counters.account_processed = 1
    /\ last.op = "callback" /\ last.id = 2 /\ last.result = "true"
    /\ processing_lock.holder = 0

\* C33: at most one call of ingest_data is inside stage processing or the
\* callback at any time, it is the holder of processing_lock, and the calls
\* enter processing in the order in which they asked for the lock.
C33_OneCallInsideInRequestOrder ==
    /\ Cardinality({t \in 1..NTasks : tasks[t].pc = "callback"}) <= 1
    /\ \A t \in 1..NTasks : tasks[t].pc = "callback" => processing_lock.holder = t
    /\ \A i, j \in 1..Len(entered) : i < j => entered[i] < entered[j]

\* a second call is inside the callback after an earlier one has entered,
\* and a later call waits for the lock
C33_Witness ==
    /\ Len(entered) >= 2
    /\ \E t \in 1..NTasks :
          /\ tasks[t].pc = "callback"
          /\ tasks[t].id = entered[Len(entered)]
    /\ \E t \in 1..NTasks :
          /\ tasks[t].pc = "waiting"
          /\ tasks[t].id > entered[Len(entered)]

\* the market event that enters processing in this step has a stage whose
\* result is empty
EmptyStageEntered ==
    /\ entered' # entered
    /\ category(ingested'[last'.id].data_type) = "MARKET"
    /\ \E k \in 1..Len(stage_results(ingested'[last'.id])) :
          stage_results(ingested'[last'.id])[k] = <<>>

\* C34: when a stage returns an empty result for an event, it is the last
\* stage invoked for the event, the callback is not invoked, ingest_data
\* returns true and neither market_processed nor errors changes.
C34_EmptyStageEndsProcessing ==
    [][EmptyStageEntered
       => (/\ \A k \in 1..Len(stage_results(ingested'[last'.id])) :
                stage_results(ingested'[last'.id])[k] = <<>>
                => k = Len(stage_results(ingested'[last'.id]))
           /\ delivered' = delivered
           /\ last'.result = "true"
           /\ counters' = counters)]_vars

\* an event passed Step1 and Step2, Step3 returned nothing, and ingest_data
\* returned true with the counters at zero
C34_Witness ==
    /\ brain_callback
    /\ last.op = "ingest_data"
    /\ last.result = "true"
    /\ entered # <<>>
    /\ entered[Len(entered)] = last.id
    /\ category(ingested[last.id].data_type) = "MARKET"
    /\ Len(stage_results(ingested[last.id])) = 3
    /\ stage_results(ingested[last.id])[2] # <<>>
    /\ counters.market_processed = 0
    /\ counters.errors = 0
    /\ delivered = <<>>

\* ---- the partition computed by initialize, on its own -------------------
InitGroups ==
    /\ config \in [symbols_per_master : 1..MaxP, masters_count : 1..MaxM,
                   warm_standbys_count : {0}, monitor_enabled : {TRUE}]
    /\ symbols \in {[i \in 1..n |-> i] : n \in 0..MaxN}
    /\ symbol_groups = <<>>
    /\ conns = <<>>
    /\ master_connections = <<>>
    /\ warm_standby_connections = <<>>
    /\ monitor_connection = NoConn
    /\ monitor_scheduler_task = "none"
    /\ orphan_scheduler_tasks = 0
    /\ connection_status = EmptyStatus
    /\ closes = 0
    /\ PipelineInit(TRUE)
    /\ last = NoLast

PartitionSymbols ==
    /\ last.op = "none"
    /\ symbol_groups' = InitializeGroups(symbols, config.symbols_per_master,
                                         config.masters_count)
    /\ last' = [op |-> "partition"]
    /\ UNCHANGED <<pipe_vars, config, symbols, conns, master_connections,
                   warm_standby_connections, monitor_connection,
                   monitor_scheduler_task,
                   orphan_scheduler_tasks, connection_status, closes>>

NextGroups == PartitionSymbols

SpecGroups == InitGroups /\ [][NextGroups]_vars

\* C3: the groups computed by initialize are pairwise disjoint and their
\* concatenation is exactly the input list: no symbol is dropped and none
\* appears in two groups.
RECURSIVE Flatten(_)
Flatten(gs) == IF gs = <<>> THEN <<>> ELSE Head(gs) \o Flatten(Tail(gs))

C3_GroupsPartitionSymbols ==
    last.op = "partition" =>
        /\ Flatten(symbol_groups) = symbols
        /\ \A a, b \in 1..Len(symbol_groups) :
              a # b => Range(symbol_groups[a]) \cap Range(symbol_groups[b]) = {}
        /\ UNION {Range(symbol_groups[a]) : a \in 1..Len(symbol_groups)} = Range(symbols)

\* the rebalancing ran on a list whose length is not a multiple of M
C3_Witness ==
    /\ last.op = "partition"
    /\ CeilDiv(Len(symbols), config.symbols_per_master) > config.masters_count
    /\ Len(symbols) % config.masters_count # 0

\* C4: when ceil(N/P) exceeds M, initialize ends with exactly M groups whose
\* sizes differ by at most 1; otherwise with ceil(N/P) groups of which only
\* the last may be smaller than P.
C4_GroupCountAndSizes ==
    last.op = "partition" =>
        LET N == Len(symbols)
            P == config.symbols_per_master
            M == config.masters_count
            G == symbol_groups
        IN IF CeilDiv(N, P) > M
           THEN /\ Len(G) = M
                /\ \A a, b \in 1..Len(G) : Len(G[a]) - Len(G[b]) <= 1
           ELSE /\ Len(G) = CeilDiv(N, P)
                /\ \A a \in 1..Len(G) : a < Len(G) => Len(G[a]) = P
                /\ Len(G) > 0 => Len(G[Len(G)]) \in 1..P

\* a rebalanced partition with groups of unequal size
C4_Witness ==
    /\ last.op = "partition"
    /\ CeilDiv(Len(symbols), config.symbols_per_master) > config.masters_count
    /\ \E a, b \in 1..Len(symbol_groups) : Len(symbol_groups[a]) # Len(symbol_groups[b])

====
